---- MODULE Spec2Model ----
(***************************************************************************)
(* The queue service of Local-AI-Server: the in-memory two-lane priority   *)
(* queue (services/queue/src/priority_queue.cpp), the pause registry and   *)
(* the HTTP handler that drives them (services/queue/src/main.cpp).        *)
(***************************************************************************)
EXTENDS Naturals, Integers, Sequences, FiniteSets, TLC

(* ------------------------------------------------------------------ *)
(* Bounds and input sets                                               *)
(* ------------------------------------------------------------------ *)

\* Number of POST /enqueue requests that store a job in one run of Spec.
MaxJobs == 2

\* The same, in a run of SpecWide.
MaxWideJobs == 3

\* The same, in a run of SpecIds, where callers may supply the id.
MaxIdJobs == 2

\* The same, in a run of SpecConc, where handlers run on several threads.
MaxConcJobs == 1

\* The same, in a run of SpecStats, where GET /stats is served too.
MaxStatsJobs == 2

\* The same, in a run of SpecPrio, where the priority field is free.
MaxPrioJobs == 2

\* The same, in a run of SpecLock, where the statements of a queue-core call
\* are separate steps.
MaxLockJobs == 1

\* The same, in a run of SpecReg, where an access to the pause registry takes
\* time.
MaxRegJobs == 1

\* Jobs stored in the runs where the "agent" and "model" fields are free.
MaxBodyJobs == 1

\* Handler threads of SpecConc, SpecLock and SpecReg.
Threads == {"t1", "t2"}

\* No thread: the value of a free mutex.
NoThread == ""

\* Agent names carried by requests.
Agents == {"A", "B"}

\* The value of a missing or empty "agent" query parameter / body field.
NoAgent == ""

\* Ids a caller puts in the "id" field of an /enqueue body.
CallerIds == {"x"}

\* The "id" field is absent from the body.
NoId == ""

\* Values of the "priority" field of an /enqueue body.
Priorities == {"high", "low"}

\* The "priority" field is absent from the body.
NoPriority == "(absent)"

\* What a caller may send as "priority": the two lane names, a string that is
\* neither, or nothing.
PriorityFields == Priorities \cup {"urgent", NoPriority}

\* Values of the "model" field of an /enqueue body.
Models == {"m"}

\* A field the body of POST /enqueue lacks, and one that is not a string.
Missing == "(missing)"
NotString == "(not a string)"

\* The "agent" and "model" fields of the body of POST /enqueue.
AgentFields == Agents \cup {"", Missing, NotString}
ModelFields == Models \cup {"", Missing, NotString}

\* The results of successive gen_id() calls: 128 random bits each, taken to
\* differ from one another and from the ids callers supply.
MintedIds == <<"g1", "g2", "g3", "g4", "g5", "g6">>

AllIds == CallerIds \cup {MintedIds[i] : i \in 1..Len(MintedIds)}

\* The "id" field of the body is the empty string.
EmptyId == ""

\* The agent whose worker process is modelled, and the jobs stored in its runs.
WorkerAgent == "A"
MaxWorkerJobs == 2

\* What process_task does with a task: returns true, returns false, throws.
Outcomes == {"true", "false", "throws"}

VARIABLES
    high,       \* InMemoryPriorityQueue::high_     (deque<Job>)
    low,        \* InMemoryPriorityQueue::low_      (deque<Job>)
    inflight,   \* InMemoryPriorityQueue::inflight_ (id -> Job)
    paused,     \* g_paused_agents
    resp,       \* the response most recently sent
    nEnq,       \* history: jobs stored by enqueue
    nDeq,       \* history: jobs returned by dequeue_for_agent
    nCancel,    \* history: jobs removed by cancel_queued_for_agent
    nComplete,  \* history: inflight entries erased by complete
    returned,   \* history: id -> dequeues that returned it since complete(id)
    th,         \* SpecConc: thread -> where its handler stands, and its locals
    stopSent,   \* SpecConc history: agents whose /control/stop was answered
                \* and that no /control/resume has touched since
    mtx,        \* InMemoryPriorityQueue::mtx_: the thread that holds it
    call,       \* SpecLock, SpecReg: thread -> the queue-core call or registry
                \* access it is in, with the locals of that call
    worker      \* SpecWorker: the agent process of main(): where its poll
                \* loop stands, and its locals

vars == <<high, low, inflight, paused, resp, nEnq, nDeq, nCancel, nComplete,
          returned, th, stopSent, mtx, call, worker>>

(* ------------------------------------------------------------------ *)
(* Job and JSON payloads                                               *)
(* ------------------------------------------------------------------ *)

\* The payload document {"i": n} of the n-th request, as the scenarios of the
\* specification number their jobs.
Doc(n) == [i |-> n]

\* json::dump of a payload document: the stored string.
Dump(doc) == <<"json", doc>>

\* json::parse of a stored payload string.
Parse(text) == text[2]

Job(id, agent, model, priority, payload) ==
    [id |-> id, agent |-> agent, model |-> model, priority |-> priority,
     payload |-> payload]

(* ------------------------------------------------------------------ *)
(* Queue core                                                          *)
(* ------------------------------------------------------------------ *)

\* deque::erase(it) of the element at index i.
Erase(q, i) == SubSeq(q, 1, i - 1) \o SubSeq(q, i + 1, Len(q))

\* The scan run from the back: the last job of the agent.
LastFor(q, agent) ==
    IF \E i \in 1..Len(q) : q[i].agent = agent
    THEN CHOOSE i \in 1..Len(q) :
            /\ q[i].agent = agent
            /\ \A k \in (i + 1)..Len(q) : q[k].agent # agent
    ELSE 0

\* The index the scan `for (it = q.begin(); ...) if (it->agent == agent)`
\* stops at, 0 when it reaches q.end().
FirstFor(q, agent) ==
    IF \E i \in 1..Len(q) : q[i].agent = agent
    THEN CHOOSE i \in 1..Len(q) :
            /\ q[i].agent = agent
            /\ \A k \in 1..(i - 1) : q[k].agent # agent
    ELSE 0

\* unordered_map::emplace: no effect when the key is present.
Emplace(m, k, v) == IF k \in DOMAIN m THEN m ELSE m @@ (k :> v)

\* unordered_map::erase(key).
MapErase(m, k) == [x \in (DOMAIN m) \ {k} |-> m[x]]

\* enqueue with the test turned round: everything but "low" goes to high.
enqueue_unless_low(h, l, job) ==
    IF job.priority # "low"
    THEN [high |-> Append(h, job), low |-> l]
    ELSE [high |-> h, low |-> Append(l, job)]

\* enqueue: the lanes after the push_back.
enqueue(h, l, job) ==
    IF job.priority = "high"
    THEN [high |-> Append(h, job), low |-> l]
    ELSE [high |-> h, low |-> Append(l, job)]

\* pop_from without the q.erase(it): the job stays in its lane.
pop_from_no_erase(q, inf, agent) ==
    LET i == FirstFor(q, agent) IN
    IF i = 0
    THEN [job |-> <<>>, q |-> q, inflight |-> inf]
    ELSE [job |-> <<q[i]>>, q |-> q, inflight |-> Emplace(inf, q[i].id, q[i])]

\* pop_from without the it->agent == agent test: the head of the lane.
pop_from_any_agent(q, inf, agent) ==
    IF q = <<>>
    THEN [job |-> <<>>, q |-> q, inflight |-> inf]
    ELSE [job |-> <<q[1]>>, q |-> Tail(q), inflight |-> Emplace(inf, q[1].id, q[1])]

\* The lambda pop_from of dequeue_for_agent, on lane q.
pop_from(q, inf, agent) ==
    LET i == FirstFor(q, agent) IN
    IF i = 0
    THEN [job |-> <<>>, q |-> q, inflight |-> inf]
    ELSE [job |-> <<q[i]>>, q |-> Erase(q, i),
          inflight |-> Emplace(inf, q[i].id, q[i])]

\* dequeue_for_agent without the second pop_from: low is never scanned.
dequeue_high_only(h, l, inf, agent) ==
    LET ph == pop_from(h, inf, agent)
    IN  [job |-> ph.job, high |-> ph.q, low |-> l, inflight |-> ph.inflight]

\* dequeue_for_agent with the two pop_from lines swapped: low first.
dequeue_low_first(h, l, inf, agent) ==
    LET ph == pop_from(h, inf, agent)
        pl == pop_from(l, inf, agent)
    IN  IF pl.job # <<>>
        THEN [job |-> pl.job, high |-> h, low |-> pl.q, inflight |-> pl.inflight]
        ELSE [job |-> ph.job, high |-> ph.q, low |-> l, inflight |-> ph.inflight]

\* dequeue_for_agent: high first, then low.
dequeue_for_agent(h, l, inf, agent) ==
    LET ph == pop_from(h, inf, agent)
        pl == pop_from(l, inf, agent)
    IN  IF ph.job # <<>>
        THEN [job |-> ph.job, high |-> ph.q, low |-> l, inflight |-> ph.inflight]
        ELSE [job |-> pl.job, high |-> h, low |-> pl.q, inflight |-> pl.inflight]

\* complete as inflight_.clear().
complete_clears(inf, id) == <<>>

\* complete: inflight_.erase(id).
complete(inf, id) == MapErase(inf, id)

\* The lambda remove_from of cancel_queued_for_agent: erase(remove_if(...)).
RECURSIVE RemoveIf(_, _)
RemoveIf(q, agent) ==
    IF q = <<>> THEN <<>>
    ELSE IF Head(q).agent = agent
         THEN RemoveIf(Tail(q), agent)
         ELSE <<Head(q)>> \o RemoveIf(Tail(q), agent)

\* remove_from that erases the first match only.
remove_first_only(q, agent) ==
    LET i == FirstFor(q, agent)
    IN  IF i = 0 THEN [q |-> q, removed |-> 0]
        ELSE [q |-> Erase(q, i), removed |-> 1]

remove_from(q, agent) ==
    LET after == RemoveIf(q, agent)
    IN  [q |-> after, removed |-> Len(q) - Len(after)]

\* cancel_queued_for_agent without the remove_from(low_) line.
cancel_high_only(h, l, agent) ==
    LET rh == remove_from(h, agent)
    IN  [high |-> rh.q, low |-> l, removed |-> rh.removed]

cancel_queued_for_agent(h, l, agent) ==
    LET rh == remove_from(h, agent)
        rl == remove_from(l, agent)
    IN  [high |-> rh.q, low |-> rl.q, removed |-> rh.removed + rl.removed]

\* peek_for_agent reporting 1-based positions.
peek_one_based(h, l, agent) ==
    IF FirstFor(h, agent) # 0
    THEN <<[job |-> h[FirstFor(h, agent)], lane |-> "high",
            position |-> FirstFor(h, agent)]>>
    ELSE IF FirstFor(l, agent) # 0
    THEN <<[job |-> l[FirstFor(l, agent)], lane |-> "low",
            position |-> FirstFor(l, agent)]>>
    ELSE <<>>

\* peek_for_agent: <<>> or <<PeekInfo>>, position 0-based.
peek_for_agent(h, l, agent) ==
    IF FirstFor(h, agent) # 0
    THEN <<[job |-> h[FirstFor(h, agent)], lane |-> "high",
            position |-> FirstFor(h, agent) - 1]>>
    ELSE IF FirstFor(l, agent) # 0
    THEN <<[job |-> l[FirstFor(l, agent)], lane |-> "low",
            position |-> FirstFor(l, agent) - 1]>>
    ELSE <<>>

\* skip_next_for_agent pushing the job found in high onto low.
skip_next_to_low(h, l, agent) ==
    LET ih == FirstFor(h, agent)
        il == FirstFor(l, agent)
    IN  IF ih # 0
        THEN [moved |-> TRUE, high |-> Erase(h, ih), low |-> Append(l, h[ih])]
        ELSE IF il # 0
        THEN [moved |-> TRUE, high |-> h, low |-> Append(Erase(l, il), l[il])]
        ELSE [moved |-> FALSE, high |-> h, low |-> l]

\* skip_next_for_agent that finds the job and leaves it where it is.
skip_next_stays(h, l, agent) ==
    [moved |-> FirstFor(h, agent) # 0 \/ FirstFor(l, agent) # 0,
     high |-> h, low |-> l]

\* skip_next_for_agent without the push_back: the job is erased.
skip_next_drops(h, l, agent) ==
    LET ih == FirstFor(h, agent)
        il == FirstFor(l, agent)
    IN  IF ih # 0
        THEN [moved |-> TRUE, high |-> Erase(h, ih), low |-> l]
        ELSE IF il # 0
        THEN [moved |-> TRUE, high |-> h, low |-> Erase(l, il)]
        ELSE [moved |-> FALSE, high |-> h, low |-> l]

\* skip_next_for_agent with push_front in place of push_back.
skip_next_to_front(h, l, agent) ==
    LET ih == FirstFor(h, agent)
        il == FirstFor(l, agent)
    IN  IF ih # 0
        THEN [moved |-> TRUE, high |-> <<h[ih]>> \o Erase(h, ih), low |-> l]
        ELSE IF il # 0
        THEN [moved |-> TRUE, high |-> h, low |-> <<l[il]>> \o Erase(l, il)]
        ELSE [moved |-> FALSE, high |-> h, low |-> l]

skip_next_for_agent(h, l, agent) ==
    LET ih == FirstFor(h, agent)
        il == FirstFor(l, agent)
    IN  IF ih # 0
        THEN [moved |-> TRUE, high |-> Append(Erase(h, ih), h[ih]), low |-> l]
        ELSE IF il # 0
        THEN [moved |-> TRUE, high |-> h, low |-> Append(Erase(l, il), l[il])]
        ELSE [moved |-> FALSE, high |-> h, low |-> l]

\* bring_forward_for_agent with the two scans swapped: low first.
\* bring_forward_for_agent that puts a job found in low at the front of low.
bring_forward_keeps_lane(h, l, agent) ==
    LET ih == FirstFor(h, agent)
        il == FirstFor(l, agent)
    IN  IF ih # 0
        THEN [moved |-> TRUE, high |-> <<h[ih]>> \o Erase(h, ih), low |-> l]
        ELSE IF il # 0
        THEN [moved |-> TRUE, high |-> h, low |-> <<l[il]>> \o Erase(l, il)]
        ELSE [moved |-> FALSE, high |-> h, low |-> l]

\* bring_forward_for_agent that rewrites the priority of a promoted job.
bring_forward_relabels(h, l, agent) ==
    LET ih == FirstFor(h, agent)
        il == FirstFor(l, agent)
    IN  IF ih # 0
        THEN [moved |-> TRUE, high |-> <<h[ih]>> \o Erase(h, ih), low |-> l]
        ELSE IF il # 0
        THEN [moved |-> TRUE,
              high |-> <<[l[il] EXCEPT !.priority = "high"]>> \o h,
              low |-> Erase(l, il)]
        ELSE [moved |-> FALSE, high |-> h, low |-> l]

bring_forward_low_first(h, l, agent) ==
    LET ih == FirstFor(h, agent)
        il == FirstFor(l, agent)
    IN  IF il # 0
        THEN [moved |-> TRUE, high |-> <<l[il]>> \o h, low |-> Erase(l, il)]
        ELSE IF ih # 0
        THEN [moved |-> TRUE, high |-> <<h[ih]>> \o Erase(h, ih), low |-> l]
        ELSE [moved |-> FALSE, high |-> h, low |-> l]

bring_forward_for_agent(h, l, agent) ==
    LET ih == FirstFor(h, agent)
        il == FirstFor(l, agent)
    IN  IF ih # 0
        THEN [moved |-> TRUE, high |-> <<h[ih]>> \o Erase(h, ih), low |-> l]
        ELSE IF il # 0
        THEN [moved |-> TRUE, high |-> <<l[il]>> \o h, low |-> Erase(l, il)]
        ELSE [moved |-> FALSE, high |-> h, low |-> l]

\* snapshot: copies of the three collections (inflight as a set of jobs, its
\* order being unspecified).
snapshot(h, l, inf) ==
    [high |-> h, low |-> l, inflight |-> {inf[k] : k \in DOMAIN inf}]

(* ------------------------------------------------------------------ *)
(* HTTP surface: one request handled from parse to response            *)
(* ------------------------------------------------------------------ *)

\* j.value("priority", std::string("low")): the field, or "low" when absent.
priority_value(field) == IF field = NoPriority THEN "low" ELSE field

gen_id(n) == MintedIds[n]

\* A response: the agent query parameter of the request it answers, the HTTP
\* status and the JSON body (kind names the keys the body has).
Response(agent, status, kind, job, id, num, flag) ==
    [agent |-> agent, status |-> status, kind |-> kind, job |-> job,
     id |-> id, num |-> num, flag |-> flag, lane |-> "", list |-> {},
     error |-> "", stats |-> <<>>]

NoResponse == Response(NoAgent, 0, "", <<>>, NoId, 0, FALSE)

\* 400 {"error": ...}
BadRequest(agent) == Response(agent, 400, "error", <<>>, NoId, 0, FALSE)

\* The texts of the "error" field: the two fixed ones and the what() of an
\* exception thrown by the JSON library.
ErrAgent == "agent query parameter required"

ErrId == "id required"

ErrWhat == "e.what()"

\* 400 {"error": msg}
ErrorBody(agent, msg) == [BadRequest(agent) EXCEPT !.error = msg]

\* 204, empty body
NoContent(agent) == Response(agent, 204, "", <<>>, NoId, 0, FALSE)

\* 200 {"ok": flag}
OkBody(agent, flag) == Response(agent, 200, "ok", <<>>, NoId, 0, flag)

\* 200 {"removed": n}
RemovedBody(agent, n) == Response(agent, 200, "removed", <<>>, NoId, n, TRUE)

\* 200 {"ok": true, "paused": true, "removed": n}
StopBody(agent, n) == Response(agent, 200, "stopped", <<>>, NoId, n, TRUE)

\* 200 {"id": id}
IdBody(id) == Response(NoAgent, 200, "id", <<>>, id, 0, TRUE)

\* The job as serialized into a /dequeue or /peek response.
JobJson(j) == [id |-> j.id, agent |-> j.agent, model |-> j.model,
               priority |-> j.priority, payload |-> Parse(j.payload)]

\* 200 {id, agent, model, priority, payload}
JobBody(agent, j) == Response(agent, 200, "job", <<JobJson(j)>>, NoId, 0, TRUE)

\* 200 {job, lane, position}
PeekBody(agent, p) ==
    [Response(agent, 200, "peek", <<JobJson(p.job)>>, NoId, p.position, TRUE)
        EXCEPT !.lane = p.lane]

\* 200 {"paused": [agent, ...]}; the order of the array is that of the
\* unordered_set iteration, so the array is taken as the set of its elements.
StateBody(p) ==
    [Response(NoAgent, 200, "paused", <<>>, NoId, 0, TRUE) EXCEPT !.list = p]

\* The agents that own a job of a snapshot: the keys of by_agent.
AgentsOf(s) ==
    {s.high[i].agent : i \in 1..Len(s.high)}
        \cup {s.low[i].agent : i \in 1..Len(s.low)}
        \cup {j.agent : j \in s.inflight}

\* The document GET /stats builds from a snapshot: the three arrays (inflight
\* in the order of the unordered_map iteration, taken as a set) and the
\* metrics counted from them by push_job.
\* The /stats document with a push_job that does not count the inflight lane.
StatsDocLanesOnly(s) ==
    LET highArr == [i \in 1..Len(s.high) |-> JobJson(s.high[i])]
        lowArr == [i \in 1..Len(s.low) |-> JobJson(s.low[i])]
        inflightArr == {JobJson(j) : j \in s.inflight}
    IN  [queues |-> [high |-> highArr, low |-> lowArr],
         inflight |-> inflightArr,
         metrics |->
            [queued_high |-> Len(highArr),
             queued_low |-> Len(lowArr),
             inflight |-> Cardinality(inflightArr),
             by_agent |->
                [a \in AgentsOf(s) |->
                   [queued_high |-> Cardinality({i \in 1..Len(s.high) : s.high[i].agent = a}),
                    queued_low |-> Cardinality({i \in 1..Len(s.low) : s.low[i].agent = a}),
                    inflight |-> 0]]]]

StatsDoc(s) ==
    LET highArr == [i \in 1..Len(s.high) |-> JobJson(s.high[i])]
        lowArr == [i \in 1..Len(s.low) |-> JobJson(s.low[i])]
        inflightArr == {JobJson(j) : j \in s.inflight}
    IN  [queues |-> [high |-> highArr, low |-> lowArr],
         inflight |-> inflightArr,
         metrics |->
            [queued_high |-> Len(highArr),
             queued_low |-> Len(lowArr),
             inflight |-> Cardinality(inflightArr),
             by_agent |->
                [a \in AgentsOf(s) |->
                   [queued_high |-> Cardinality({i \in 1..Len(s.high) : s.high[i].agent = a}),
                    queued_low |-> Cardinality({i \in 1..Len(s.low) : s.low[i].agent = a}),
                    inflight |-> Cardinality({j \in s.inflight : j.agent = a})]]]]

\* 200 {queues, inflight, metrics}
StatsBody(s) ==
    [Response(NoAgent, 200, "stats", <<>>, NoId, 0, TRUE) EXCEPT !.stats = <<StatsDoc(s)>>]

hist == <<nEnq, nDeq, nCancel, nComplete, returned>>

conc == <<th, stopSent, mtx, call, worker>>

locks == <<mtx, call, worker>>

Idle == [pc |-> "idle", agent |-> NoAgent, num |-> 0]

\* The agent process before it is started.
NoWorker == [pc |-> "off", once |-> FALSE, task |-> <<>>, calls |-> 0,
             last |-> 0, ran |-> FALSE, status |-> ""]

IdleCall == [pc |-> "idle", op |-> "", agent |-> NoAgent, id |-> NoId,
             job |-> <<>>, lane |-> "", ret |-> <<>>, pre |-> <<>>,
             raced |-> FALSE]

Init ==
    /\ high = <<>>
    /\ low = <<>>
    /\ inflight = <<>>
    /\ paused = {}
    /\ resp = NoResponse
    /\ nEnq = 0
    /\ nDeq = 0
    /\ nCancel = 0
    /\ nComplete = 0
    /\ returned = [i \in AllIds \cup {EmptyId} |-> 0]
    /\ th = [t \in Threads |-> Idle]
    /\ stopSent = {}
    /\ mtx = NoThread
    /\ call = [t \in Threads |-> IdleCall]
    /\ worker = NoWorker

\* The shape of the state: the members of InMemoryPriorityQueue, the pause
\* registry, the last response and the histories.
TypeOK ==
    /\ \A i \in 1..Len(high) :
          high[i].agent \in Agents \cup {""} /\ high[i].id \in AllIds \cup {EmptyId}
    /\ \A i \in 1..Len(low) :
          low[i].agent \in Agents \cup {""} /\ low[i].id \in AllIds \cup {EmptyId}
    /\ \A k \in DOMAIN inflight :
          k \in AllIds \cup {EmptyId} /\ inflight[k].id = k
    /\ paused \subseteq Agents
    /\ resp.status \in {0, 200, 204, 400}
    /\ nEnq \in Nat /\ nDeq \in Nat /\ nCancel \in Nat /\ nComplete \in Nat
    /\ \A id \in AllIds : returned[id] \in Nat
    /\ \A t \in Threads : th[t].pc \in {"idle", "dispatch", "cancel", "respond"}
    /\ stopSent \subseteq Agents
    /\ mtx \in Threads \cup {NoThread}
    /\ \A t \in Threads :
          call[t].pc \in {"idle", "waiting", "locked", "insert", "done",
                           "registry", "after"}
    /\ worker.pc \in {"off", "poll", "work", "exit"}

\* The missing-agent answer shared by the routes that take ?agent=.
AgentRequired(agent) ==
    /\ agent = NoAgent
    /\ resp' = ErrorBody(agent, ErrAgent)
    /\ UNCHANGED <<high, low, inflight, paused>>
    /\ UNCHANGED hist

\* POST /enqueue with a body that has agent and model; id = NoId when the body
\* has no "id".
HandleEnqueue(id, agent, model, priority) ==
    /\ LET job == Job(IF id = NoId THEN gen_id(nEnq + 1) ELSE id, agent, model,
                      priority, Dump(Doc(nEnq + 1)))
           q == enqueue(high, low, job)
       IN  /\ high' = q.high
           /\ low' = q.low
           /\ resp' = IdBody(job.id)
    /\ nEnq' = nEnq + 1
    /\ UNCHANGED <<inflight, paused, nDeq, nCancel, nComplete, returned>>
    /\ UNCHANGED conc

\* POST /enqueue whose body lacks agent: j.at("agent") throws, caught -> 400.
HandleEnqueueBad ==
    /\ resp' = ErrorBody(NoAgent, ErrWhat)
    /\ UNCHANGED <<high, low, inflight, paused>>
    /\ UNCHANGED hist
    /\ UNCHANGED conc

\* The part of GET /dequeue after the pause gate: dequeue_for_agent and the
\* response.
Dispatch(agent) ==
    LET d == dequeue_for_agent(high, low, inflight, agent) IN
    /\ high' = d.high
    /\ low' = d.low
    /\ inflight' = d.inflight
    /\ IF d.job = <<>>
       THEN /\ resp' = NoContent(agent)
            /\ UNCHANGED <<nDeq, returned>>
       ELSE /\ resp' = JobBody(agent, d.job[1])
            /\ nDeq' = nDeq + 1
            /\ returned' = [returned EXCEPT ![d.job[1].id] = @ + 1]
    /\ UNCHANGED <<paused, nEnq, nCancel, nComplete>>

\* GET /dequeue without the g_paused_agents.count check.
HandleDequeueNoGate(agent) ==
    /\ IF agent = NoAgent THEN AgentRequired(agent) ELSE Dispatch(agent)
    /\ UNCHANGED conc

\* The effect of GET /dequeue on the queue, and its response.
Dequeue(agent) ==
    IF agent = NoAgent
    THEN AgentRequired(agent)
    ELSE IF agent \in paused
    THEN /\ resp' = NoContent(agent)
         /\ UNCHANGED <<high, low, inflight, paused>>
         /\ UNCHANGED hist
    ELSE Dispatch(agent)

\* GET /dequeue?agent=...
HandleDequeue(agent) ==
    /\ Dequeue(agent)
    /\ UNCHANGED conc

\* POST /control/pause that erases an agent already in the registry.
HandlePauseToggle(agent) ==
    /\ IF agent = NoAgent
       THEN AgentRequired(agent)
       ELSE /\ paused' = IF agent \in paused THEN paused \ {agent}
                                              ELSE paused \cup {agent}
            /\ resp' = OkBody(agent, TRUE)
            /\ UNCHANGED <<high, low, inflight>>
            /\ UNCHANGED hist
    /\ UNCHANGED conc

\* POST /control/pause?agent=...
HandlePause(agent) ==
    /\ IF agent = NoAgent
       THEN AgentRequired(agent)
       ELSE /\ paused' = paused \cup {agent}
            /\ resp' = OkBody(agent, TRUE)
            /\ UNCHANGED <<high, low, inflight>>
            /\ UNCHANGED hist
    /\ UNCHANGED conc

\* The effect of POST /control/resume on the registry, and its response.
Resume(agent) ==
    IF agent = NoAgent
    THEN AgentRequired(agent)
    ELSE /\ paused' = paused \ {agent}
         /\ resp' = OkBody(agent, TRUE)
         /\ UNCHANGED <<high, low, inflight>>
         /\ UNCHANGED hist

\* POST /control/resume?agent=...
HandleResume(agent) ==
    /\ Resume(agent)
    /\ UNCHANGED conc

\* GET /control/state
HandleState ==
    /\ resp' = StateBody(paused)
    /\ UNCHANGED <<high, low, inflight, paused>>
    /\ UNCHANGED hist
    /\ UNCHANGED conc

\* GET /stats
HandleStats ==
    /\ resp' = StatsBody(snapshot(high, low, inflight))
    /\ UNCHANGED <<high, low, inflight, paused>>
    /\ UNCHANGED hist
    /\ UNCHANGED conc

\* DELETE /jobs that also erases the inflight jobs of the agent.
HandleDeleteJobsInflight(agent) ==
    /\ IF agent = NoAgent
       THEN AgentRequired(agent)
       ELSE LET c == cancel_queued_for_agent(high, low, agent) IN
            /\ high' = c.high
            /\ low' = c.low
            /\ inflight' = [k \in {x \in DOMAIN inflight :
                                      inflight[x].agent # agent} |-> inflight[k]]
            /\ resp' = RemovedBody(agent, c.removed)
            /\ nCancel' = nCancel + c.removed
            /\ UNCHANGED <<paused, nEnq, nDeq, nComplete, returned>>
    /\ UNCHANGED conc

\* DELETE /jobs?agent=...
HandleDeleteJobs(agent) ==
    /\ IF agent = NoAgent
       THEN AgentRequired(agent)
       ELSE LET c == cancel_queued_for_agent(high, low, agent) IN
            /\ high' = c.high
            /\ low' = c.low
            /\ resp' = RemovedBody(agent, c.removed)
            /\ nCancel' = nCancel + c.removed
            /\ UNCHANGED <<inflight, paused, nEnq, nDeq, nComplete, returned>>
    /\ UNCHANGED conc

\* POST /complete/{id} that retires the job before it parses the body.
HandleCompleteEarly(id, bodyOk) ==
    /\ IF id = NoId
       THEN /\ resp' = ErrorBody(NoAgent, ErrId)
            /\ UNCHANGED <<high, low, inflight, paused>>
            /\ UNCHANGED hist
       ELSE /\ inflight' = complete(inflight, id)
            /\ resp' = IF bodyOk THEN OkBody(NoAgent, TRUE)
                                 ELSE ErrorBody(NoAgent, ErrWhat)
            /\ nComplete' = IF id \in DOMAIN inflight THEN nComplete + 1
                                                     ELSE nComplete
            /\ returned' = [returned EXCEPT ![id] = 0]
            /\ UNCHANGED <<high, low, paused, nEnq, nDeq, nCancel>>
    /\ UNCHANGED conc

\* The effect of POST /complete/{id} on the queue, and its response; bodyOk:
\* the body parses as JSON.
Complete(id, bodyOk) ==
    IF id = NoId \/ ~bodyOk
    THEN /\ resp' = ErrorBody(NoAgent, IF id = NoId THEN ErrId ELSE ErrWhat)
         /\ UNCHANGED <<high, low, inflight, paused>>
         /\ UNCHANGED hist
    ELSE /\ inflight' = complete(inflight, id)
         /\ resp' = OkBody(NoAgent, TRUE)
         /\ nComplete' = IF id \in DOMAIN inflight THEN nComplete + 1
                                                  ELSE nComplete
         /\ returned' = [returned EXCEPT ![id] = 0]
         /\ UNCHANGED <<high, low, paused, nEnq, nDeq, nCancel>>

\* POST /complete/{id}
HandleComplete(id, bodyOk) ==
    /\ Complete(id, bodyOk)
    /\ UNCHANGED conc

\* GET /peek?agent=...
HandlePeek(agent) ==
    /\ IF agent = NoAgent
       THEN AgentRequired(agent)
       ELSE LET p == peek_for_agent(high, low, agent) IN
            /\ resp' = IF p = <<>> THEN NoContent(agent) ELSE PeekBody(agent, p[1])
            /\ UNCHANGED <<high, low, inflight, paused>>
            /\ UNCHANGED hist
    /\ UNCHANGED conc

\* POST /control/skip_next behind the pause gate of /dequeue.
HandleSkipNextGated(agent) ==
    /\ IF agent = NoAgent
       THEN AgentRequired(agent)
       ELSE IF agent \in paused
       THEN /\ resp' = NoContent(agent)
            /\ UNCHANGED <<high, low, inflight, paused>>
            /\ UNCHANGED hist
       ELSE LET s == skip_next_for_agent(high, low, agent) IN
            /\ high' = s.high
            /\ low' = s.low
            /\ resp' = OkBody(agent, s.moved)
            /\ UNCHANGED <<inflight, paused>>
            /\ UNCHANGED hist
    /\ UNCHANGED conc

\* POST /control/stop that does not test the agent parameter.
HandleStopUnchecked(agent) ==
    /\ LET c == cancel_queued_for_agent(high, low, agent) IN
            /\ paused' = paused \cup {agent}
            /\ high' = c.high
            /\ low' = c.low
            /\ resp' = StopBody(agent, c.removed)
            /\ nCancel' = nCancel + c.removed
            /\ UNCHANGED <<inflight, nEnq, nDeq, nComplete, returned>>
    /\ UNCHANGED conc

\* POST /control/skip_next?agent=...
HandleSkipNext(agent) ==
    /\ IF agent = NoAgent
       THEN AgentRequired(agent)
       ELSE LET s == skip_next_for_agent(high, low, agent) IN
            /\ high' = s.high
            /\ low' = s.low
            /\ resp' = OkBody(agent, s.moved)
            /\ UNCHANGED <<inflight, paused>>
            /\ UNCHANGED hist
    /\ UNCHANGED conc

\* POST /control/bring_forward?agent=...
HandleBringForward(agent) ==
    /\ IF agent = NoAgent
       THEN AgentRequired(agent)
       ELSE LET b == bring_forward_for_agent(high, low, agent) IN
            /\ high' = b.high
            /\ low' = b.low
            /\ resp' = OkBody(agent, b.moved)
            /\ UNCHANGED <<inflight, paused>>
            /\ UNCHANGED hist
    /\ UNCHANGED conc

\* POST /control/stop?agent=...
HandleStop(agent) ==
    /\ IF agent = NoAgent
       THEN AgentRequired(agent)
       ELSE LET c == cancel_queued_for_agent(high, low, agent) IN
            /\ paused' = paused \cup {agent}
            /\ high' = c.high
            /\ low' = c.low
            /\ resp' = StopBody(agent, c.removed)
            /\ nCancel' = nCancel + c.removed
            /\ UNCHANGED <<inflight, nEnq, nDeq, nComplete, returned>>
    /\ UNCHANGED conc

RequestAgents == Agents \cup {NoAgent}

\* Ids named in POST /complete/{id}: every id a run can hold, and none.
CompleteIds(n) == CallerIds \cup {MintedIds[i] : i \in 1..n} \cup {NoId}

\* The requests that store no job, each handled from parse to response.
Requests(n) ==
    \/ HandleEnqueueBad
    \/ \E a \in RequestAgents : HandleDequeue(a)
    \/ \E a \in RequestAgents : HandlePause(a)
    \/ \E a \in RequestAgents : HandleResume(a)
    \/ HandleState
    \/ \E a \in RequestAgents : HandleDeleteJobs(a)
    \/ \E id \in CompleteIds(n), ok \in BOOLEAN : HandleComplete(id, ok)
    \/ \E a \in RequestAgents : HandlePeek(a)
    \/ \E a \in RequestAgents : HandleSkipNext(a)
    \/ \E a \in RequestAgents : HandleBringForward(a)
    \/ \E a \in RequestAgents : HandleStop(a)

\* POST /enqueue without "id": the server mints it.
EnqueueMinted ==
    /\ nEnq < MaxJobs
    /\ \E a \in Agents, m \in Models, p \in Priorities : HandleEnqueue(NoId, a, m, p)

\* POST /enqueue with or without a caller-supplied "id".
EnqueueAnyId ==
    /\ nEnq < MaxIdJobs
    /\ \E id \in CallerIds \cup {NoId}, a \in Agents, m \in Models, p \in Priorities :
          HandleEnqueue(id, a, m, p)

\* Requests handled one at a time, ids minted by the server.
Next == EnqueueMinted \/ Requests(MaxJobs)

Spec == Init /\ [][Next]_vars

\* POST /enqueue without "id", up to MaxWideJobs of them.
EnqueueMintedWide ==
    /\ nEnq < MaxWideJobs
    /\ \E a \in Agents, m \in Models, p \in Priorities : HandleEnqueue(NoId, a, m, p)

\* As Next, with room for one more job.
NextWide == EnqueueMintedWide \/ Requests(MaxWideJobs)

SpecWide == Init /\ [][NextWide]_vars

\* Requests handled one at a time, ids minted or supplied by the caller.
NextIds == EnqueueAnyId \/ Requests(MaxIdJobs)

SpecIds == Init /\ [][NextIds]_vars

\* POST /enqueue without "id", up to MaxStatsJobs of them.
EnqueueMintedStats ==
    /\ nEnq < MaxStatsJobs
    /\ \E a \in Agents, m \in Models, p \in Priorities : HandleEnqueue(NoId, a, m, p)

\* Requests handled one at a time, GET /stats among them.
NextStats == EnqueueMintedStats \/ HandleStats \/ Requests(MaxStatsJobs)

SpecStats == Init /\ [][NextStats]_vars

(* ------------------------------------------------------------------ *)
(* The agent process: main() of an agent with its poll loop, a client  *)
(* of the dispatch API through AgentQueueClient.  A call of the client *)
(* is one step: the request, the handler and the reading of the        *)
(* response.                                                           *)
(* ------------------------------------------------------------------ *)

\* What the steps of the agent process leave alone in the server.
threads == <<th, stopSent, mtx, call>>

\* POST /enqueue whose body has "id": "": j.value("id", gen_id()) returns the
\* empty string and the job is stored with it.
HandleEnqueueEmptyId(agent, model, priority) ==
    /\ LET job == Job(EmptyId, agent, model, priority, Dump(Doc(nEnq + 1)))
           q == enqueue(high, low, job)
       IN  /\ high' = q.high
           /\ low' = q.low
           /\ resp' = IdBody(job.id)
    /\ nEnq' = nEnq + 1
    /\ UNCHANGED <<inflight, paused, nDeq, nCancel, nComplete, returned>>
    /\ UNCHANGED conc

\* AgentQueueClient::dequeue reading a 200 response into a Task.
TaskOf(j) == [id |-> j.id, agent |-> j.agent, model |-> j.model,
              priority |-> j.priority, payload_json |-> Dump(j.payload)]

\* main() up to the loop: --once is on the command line or not.
WorkerStart(once) ==
    /\ worker.pc = "off"
    /\ worker' = [NoWorker EXCEPT !.pc = "poll", !.once = once]
    /\ UNCHANGED <<high, low, inflight, paused, resp>>
    /\ UNCHANGED hist
    /\ UNCHANGED threads

\* client.dequeue(agent): a task goes to process_task; without one the loop
\* sleeps and tests `while (!once)`.
WorkerDequeue ==
    /\ worker.pc = "poll"
    /\ Dequeue(WorkerAgent)
    /\ worker' = IF resp'.status = 200
                 THEN [worker EXCEPT !.pc = "work",
                                     !.task = <<TaskOf(resp'.job[1])>>,
                                     !.calls = 0,
                                     !.last = resp'.job[1].payload.i,
                                     !.status = ""]
                 ELSE [worker EXCEPT !.pc = IF worker.once THEN "exit"
                                                           ELSE "poll",
                                     !.ran = TRUE]
    /\ UNCHANGED threads

\* process_task and the client.complete that follows it, in the catch block
\* (then `continue`) or after the try; then the test `while (!once)`.  The
\* body the client sends always parses.
WorkerComplete(outcome) ==
    /\ worker.pc = "work"
    /\ Complete(worker.task[1].id, TRUE)
    /\ worker' = [worker EXCEPT !.pc = IF worker.once THEN "exit" ELSE "poll",
                                !.task = <<>>,
                                !.calls = @ + 1,
                                !.ran = TRUE,
                                !.status = IF outcome = "true" THEN "ok"
                                                               ELSE "error"]
    /\ UNCHANGED threads

\* POST /enqueue without "id" or with the empty id.
EnqueueWorker ==
    /\ nEnq < MaxWorkerJobs
    /\ \E a \in Agents, m \in Models, p \in Priorities :
          \/ HandleEnqueue(NoId, a, m, p)
          \/ HandleEnqueueEmptyId(a, m, p)

\* The operator's requests and the polls of the workers of the other agents.
Operator ==
    \/ \E a \in Agents : HandlePause(a)
    \/ \E a \in Agents : HandleResume(a)
    \/ \E a \in Agents : HandleStop(a)
    \/ \E a \in Agents : HandleDeleteJobs(a)
    \/ \E a \in Agents : HandleSkipNext(a)
    \/ \E a \in Agents : HandleBringForward(a)
    \/ \E a \in Agents \ {WorkerAgent} : HandleDequeue(a)

NextWorker ==
    \/ \E once \in BOOLEAN : WorkerStart(once)
    \/ WorkerDequeue
    \/ \E o \in Outcomes : WorkerComplete(o)
    \/ EnqueueWorker
    \/ Operator

SpecWorker == Init /\ [][NextWorker]_vars

\* The agent process is scheduled: main() starts, and each call of the loop
\* that can be made is made.
WorkerFairness ==
    /\ WF_vars(\E once \in BOOLEAN : WorkerStart(once))
    /\ WF_vars(WorkerDequeue)
    /\ WF_vars(\E o \in Outcomes : WorkerComplete(o))

SpecWorkerFair == SpecWorker /\ WorkerFairness

\* POST /enqueue without "id", with any "priority" field or none.
EnqueueAnyPriority ==
    /\ nEnq < MaxPrioJobs
    /\ \E a \in Agents, m \in Models, f \in PriorityFields :
          HandleEnqueue(NoId, a, m, priority_value(f))

\* Requests handled one at a time, the priority field free.
NextPrio == EnqueueAnyPriority \/ Requests(MaxPrioJobs)

SpecPrio == Init /\ [][NextPrio]_vars

\* POST /enqueue with any "agent" and "model" field: j.at(key) throws when the
\* key is missing and get<std::string>() when the value is not a string, both
\* caught -> 400; every string, the empty one included, is stored.
HandleEnqueueBody(agentField, modelField, priority) ==
    IF agentField \in {Missing, NotString} \/ modelField \in {Missing, NotString}
    THEN HandleEnqueueBad
    ELSE HandleEnqueue(NoId, agentField, modelField, priority)

EnqueueAnyBody ==
    /\ nEnq < MaxBodyJobs
    /\ \E af \in AgentFields, mf \in ModelFields, p \in Priorities :
          HandleEnqueueBody(af, mf, p)

\* Requests handled one at a time, the agent and model fields free.
NextBody == EnqueueAnyBody \/ Requests(MaxBodyJobs)

SpecBody == Init /\ [][NextBody]_vars

(* ------------------------------------------------------------------ *)
(* Handlers on several threads.  A queue-core call is one step (it     *)
(* holds mtx_ throughout); an access to g_paused_agents is one step;   *)
(* nothing joins the steps of one handler.                             *)
(* ------------------------------------------------------------------ *)

SomeIdle == \E t \in Threads : th[t].pc = "idle"

\* GET /dequeue, first step: the g_paused_agents.count check.
DequeueGate(t, agent) ==
    /\ th[t].pc = "idle"
    /\ IF agent \in paused
       THEN /\ resp' = NoContent(agent)
            /\ UNCHANGED th
       ELSE /\ th' = [th EXCEPT ![t] = [pc |-> "dispatch", agent |-> agent, num |-> 0]]
            /\ UNCHANGED resp
    /\ UNCHANGED <<high, low, inflight, paused, stopSent>>
    /\ UNCHANGED hist
    /\ UNCHANGED locks

\* GET /dequeue, second step: dequeue_for_agent and the response.
DequeueDispatch(t) ==
    /\ th[t].pc = "dispatch"
    /\ Dispatch(th[t].agent)
    /\ th' = [th EXCEPT ![t] = Idle]
    /\ UNCHANGED stopSent
    /\ UNCHANGED locks

\* POST /control/stop, first step: g_paused_agents.insert.
StopPause(t, agent) ==
    /\ th[t].pc = "idle"
    /\ paused' = paused \cup {agent}
    /\ th' = [th EXCEPT ![t] = [pc |-> "cancel", agent |-> agent, num |-> 0]]
    /\ UNCHANGED <<high, low, inflight, resp, stopSent>>
    /\ UNCHANGED hist
    /\ UNCHANGED locks

\* POST /control/stop, second step: cancel_queued_for_agent.
StopCancel(t) ==
    /\ th[t].pc = "cancel"
    /\ LET c == cancel_queued_for_agent(high, low, th[t].agent) IN
       /\ high' = c.high
       /\ low' = c.low
       /\ nCancel' = nCancel + c.removed
       /\ th' = [th EXCEPT ![t] = [pc |-> "respond", agent |-> th[t].agent,
                                   num |-> c.removed]]
    /\ UNCHANGED <<inflight, paused, resp, nEnq, nDeq, nComplete, returned, stopSent>>
    /\ UNCHANGED locks

\* POST /control/stop, third step: the response is sent.
StopRespond(t) ==
    /\ th[t].pc = "respond"
    /\ resp' = StopBody(th[t].agent, th[t].num)
    /\ stopSent' = stopSent \cup {th[t].agent}
    /\ th' = [th EXCEPT ![t] = Idle]
    /\ UNCHANGED <<high, low, inflight, paused>>
    /\ UNCHANGED hist
    /\ UNCHANGED locks

\* POST /control/resume: g_paused_agents.erase and the response.
ConcResume(agent) ==
    /\ SomeIdle
    /\ Resume(agent)
    /\ stopSent' = stopSent \ {agent}
    /\ UNCHANGED th
    /\ UNCHANGED locks

\* A route that takes ?agent= called without it, on any thread.
ConcAgentRequired ==
    /\ SomeIdle
    /\ AgentRequired(NoAgent)
    /\ UNCHANGED conc

\* The handlers that make one shared access, on any idle thread.
ConcAtomic ==
    /\ SomeIdle
    /\ \/ /\ nEnq < MaxConcJobs
          /\ \E a \in Agents, m \in Models, p \in Priorities :
                HandleEnqueue(NoId, a, m, p)
       \/ HandleEnqueueBad
       \/ \E a \in Agents : HandlePause(a)
       \/ HandleState
       \/ \E a \in Agents : HandleDeleteJobs(a)
       \/ \E id \in CompleteIds(MaxConcJobs), ok \in BOOLEAN : HandleComplete(id, ok)
       \/ \E a \in Agents : HandlePeek(a)
       \/ \E a \in Agents : HandleSkipNext(a)
       \/ \E a \in Agents : HandleBringForward(a)

NextConc ==
    \/ ConcAtomic
    \/ ConcAgentRequired
    \/ \E a \in Agents : ConcResume(a)
    \/ \E t \in Threads, a \in Agents : DequeueGate(t, a)
    \/ \E t \in Threads : DequeueDispatch(t)
    \/ \E t \in Threads, a \in Agents : StopPause(t, a)
    \/ \E t \in Threads : StopCancel(t)
    \/ \E t \in Threads : StopRespond(t)

SpecConc == Init /\ [][NextConc]_vars

(* ------------------------------------------------------------------ *)
(* The queue core statement by statement.  A thread enters a method of *)
(* InMemoryPriorityQueue, constructs the lock on mtx_, runs the        *)
(* statements of the body one step each and releases the lock on       *)
(* return.  Nothing but the lock keeps the steps of two threads apart. *)
(* ------------------------------------------------------------------ *)

\* Methods that scan the lanes for the first job of an agent.
ScanOps == {"dequeue", "peek", "skip_next", "bring_forward"}

\* The thread is inside the body of a method, past the lock constructor.
InCore(t) == call[t].pc \in {"locked", "insert", "done"}

\* Enqueue calls entered and not yet at their push_back.
PendingEnqueues ==
    Cardinality({t \in Threads : call[t].op = "enqueue"
                                  /\ call[t].pc \in {"waiting", "locked"}})

\* The value a method starts to build its result from.
InitialRet(op) ==
    CASE op = "cancel" -> <<0>>
      [] op = "snapshot" -> <<[high |-> <<>>, low |-> <<>>, inflight |-> {}]>>
      [] OTHER -> <<>>

\* A handler thread enters a method with its arguments and stands at the
\* lock constructor.
Call(t, op, agent, id, job) ==
    /\ call[t].pc = "idle"
    /\ call' = [call EXCEPT ![t] =
                  [IdleCall EXCEPT !.pc = "waiting", !.op = op, !.agent = agent,
                                   !.id = id, !.job = job]]
    /\ UNCHANGED <<high, low, inflight, paused, resp, th, stopSent, worker, mtx>>
    /\ UNCHANGED hist

\* The calls the handlers make: enqueue(job), dequeue_for_agent(agent),
\* complete(id), snapshot(), cancel_queued_for_agent(agent),
\* peek_for_agent(agent), skip_next_for_agent(agent),
\* bring_forward_for_agent(agent).
CoreCall(t) ==
    \/ /\ nEnq + PendingEnqueues < MaxLockJobs
       /\ \E a \in Agents, m \in Models, p \in Priorities :
             Call(t, "enqueue", NoAgent, NoId, <<Job(NoId, a, m, p, <<>>)>>)
    \/ \E a \in Agents, op \in ScanOps \cup {"cancel"} :
          Call(t, op, a, NoId, <<>>)
    \/ \E id \in CompleteIds(MaxLockJobs) \ {NoId} :
          Call(t, "complete", NoAgent, id, <<>>)
    \/ Call(t, "snapshot", NoAgent, NoId, <<>>)

\* The lock constructor returning at once, mtx_ held or not.
LockUnguarded(t) ==
    /\ call[t].pc = "waiting"
    /\ mtx' = t
    /\ call' = [call EXCEPT ![t] =
                  [@ EXCEPT !.pc = "locked", !.lane = "high",
                            !.ret = InitialRet(call[t].op),
                            !.pre = <<high, low, inflight>>]]
    /\ UNCHANGED <<high, low, inflight, paused, resp, th, stopSent, worker>>
    /\ UNCHANGED hist

\* std::lock_guard / std::unique_lock on mtx_: returns when mtx_ is free,
\* holding it.  pre records the collections at that instant.
Lock(t) ==
    /\ call[t].pc = "waiting"
    /\ mtx = NoThread
    /\ mtx' = t
    /\ call' = [call EXCEPT ![t] =
                  [@ EXCEPT !.pc = "locked", !.lane = "high",
                            !.ret = InitialRet(call[t].op),
                            !.pre = <<high, low, inflight>>]]
    /\ UNCHANGED <<high, low, inflight, paused, resp, th, stopSent, worker>>
    /\ UNCHANGED hist

\* enqueue: the push_back; the job gets the id minted for it and the payload
\* of the request.
Push(t) ==
    /\ call[t].pc = "locked" /\ call[t].op = "enqueue"
    /\ LET tmpl == call[t].job[1]
           job == Job(gen_id(nEnq + 1), tmpl.agent, tmpl.model, tmpl.priority,
                      Dump(Doc(nEnq + 1)))
           q == enqueue(high, low, job)
       IN  /\ high' = q.high
           /\ low' = q.low
           /\ call' = [call EXCEPT ![t] =
                         [@ EXCEPT !.pc = "done", !.job = <<job>>, !.ret = <<job>>]]
    /\ nEnq' = nEnq + 1
    /\ UNCHANGED <<inflight, paused, resp, th, stopSent, worker, mtx>>
    /\ UNCHANGED <<nDeq, nCancel, nComplete, returned>>

\* The scan loop of dequeue_for_agent (pop_from), peek_for_agent,
\* skip_next_for_agent and bring_forward_for_agent over one lane: on a match
\* peek returns, the others copy the job and erase it from the lane; with no
\* match the scan goes on to low, or the method returns empty-handed.
Scan(t) ==
    /\ call[t].pc = "locked" /\ call[t].op \in ScanOps
    /\ LET c == call[t]
           q == IF c.lane = "high" THEN high ELSE low
           i == FirstFor(q, c.agent)
       IN  IF i = 0
           THEN /\ call' = [call EXCEPT ![t] =
                              IF c.lane = "high"
                              THEN [c EXCEPT !.lane = "low"]
                              ELSE [c EXCEPT !.pc = "done",
                                             !.ret = IF c.op \in {"dequeue", "peek"}
                                                     THEN <<>> ELSE <<FALSE>>]]
                /\ UNCHANGED <<high, low>>
           ELSE IF c.op = "peek"
           THEN /\ call' = [call EXCEPT ![t] =
                              [c EXCEPT !.pc = "done",
                                        !.ret = <<[job |-> q[i], lane |-> c.lane,
                                                   position |-> i - 1]>>]]
                /\ UNCHANGED <<high, low>>
           ELSE /\ call' = [call EXCEPT ![t] =
                              [c EXCEPT !.pc = "insert", !.job = <<q[i]>>]]
                /\ IF c.lane = "high"
                   THEN high' = Erase(high, i) /\ low' = low
                   ELSE low' = Erase(low, i) /\ high' = high
    /\ UNCHANGED <<inflight, paused, resp, th, stopSent, worker, mtx>>
    /\ UNCHANGED hist

\* The statement after the erase: inflight_.emplace (dequeue), push_back on the
\* same lane (skip_next), high_.push_front (bring_forward).
Insert(t) ==
    /\ call[t].pc = "insert"
    /\ LET c == call[t]
           j == c.job[1]
       IN  /\ CASE c.op = "dequeue" ->
                     /\ inflight' = Emplace(inflight, j.id, j)
                     /\ UNCHANGED <<high, low>>
                [] c.op = "skip_next" ->
                     /\ IF c.lane = "high"
                        THEN high' = Append(high, j) /\ low' = low
                        ELSE low' = Append(low, j) /\ high' = high
                     /\ UNCHANGED inflight
                [] c.op = "bring_forward" ->
                     /\ high' = <<j>> \o high
                     /\ UNCHANGED <<low, inflight>>
           /\ call' = [call EXCEPT ![t] =
                         [c EXCEPT !.pc = "done",
                                   !.ret = IF c.op = "dequeue" THEN <<j>> ELSE <<TRUE>>]]
    /\ UNCHANGED <<paused, resp, th, stopSent, worker, mtx>>
    /\ UNCHANGED hist

\* complete: inflight_.erase(id).
EraseInflight(t) ==
    /\ call[t].pc = "locked" /\ call[t].op = "complete"
    /\ inflight' = MapErase(inflight, call[t].id)
    /\ call' = [call EXCEPT ![t] = [@ EXCEPT !.pc = "done"]]
    /\ UNCHANGED <<high, low, paused, resp, th, stopSent, worker, mtx>>
    /\ UNCHANGED hist

\* cancel_queued_for_agent: removed += remove_from(high_), then the same on
\* low_.
RemoveLane(t) ==
    /\ call[t].pc = "locked" /\ call[t].op = "cancel"
    /\ LET c == call[t]
           r == remove_from(IF c.lane = "high" THEN high ELSE low, c.agent)
       IN  IF c.lane = "high"
           THEN /\ high' = r.q /\ low' = low
                /\ call' = [call EXCEPT ![t] =
                              [c EXCEPT !.lane = "low",
                                        !.ret = <<c.ret[1] + r.removed>>]]
           ELSE /\ low' = r.q /\ high' = high
                /\ call' = [call EXCEPT ![t] =
                              [c EXCEPT !.pc = "done",
                                        !.ret = <<c.ret[1] + r.removed>>]]
    /\ UNCHANGED <<inflight, paused, resp, th, stopSent, worker, mtx>>
    /\ UNCHANGED hist

\* snapshot: the three copy loops, high_, low_, inflight_.
Copy(t) ==
    /\ call[t].pc = "locked" /\ call[t].op = "snapshot"
    /\ LET c == call[t]
           v == c.ret[1]
       IN  call' = [call EXCEPT ![t] =
                      CASE c.lane = "high" ->
                             [c EXCEPT !.lane = "low",
                                       !.ret = <<[v EXCEPT !.high = high]>>]
                        [] c.lane = "low" ->
                             [c EXCEPT !.lane = "inflight",
                                       !.ret = <<[v EXCEPT !.low = low]>>]
                        [] c.lane = "inflight" ->
                             [c EXCEPT !.pc = "done",
                                       !.ret = <<[v EXCEPT !.inflight =
                                                     {inflight[k] : k \in DOMAIN inflight}]>>]]
    /\ UNCHANGED <<high, low, inflight, paused, resp, th, stopSent, worker, mtx>>
    /\ UNCHANGED hist

\* return: the lock destructor releases mtx_.
Unlock(t) ==
    /\ call[t].pc = "done"
    /\ mtx' = NoThread
    /\ call' = [call EXCEPT ![t] = IdleCall]
    /\ UNCHANGED <<high, low, inflight, paused, resp, th, stopSent, worker>>
    /\ UNCHANGED hist

NextLock ==
    \E t \in Threads :
        \/ CoreCall(t)
        \/ Lock(t)
        \/ Push(t)
        \/ Scan(t)
        \/ Insert(t)
        \/ EraseInflight(t)
        \/ RemoveLane(t)
        \/ Copy(t)
        \/ Unlock(t)

SpecLock == Init /\ [][NextLock]_vars

(* ------------------------------------------------------------------ *)
(* The pause registry access by access.  g_paused_agents is a plain    *)
(* std::unordered_set; a handler that reads or writes it is inside the *)
(* container from the start of the member call to its return, and no   *)
(* lock is taken around the call.  Two accesses that overlap, one of   *)
(* them a write, are a data race: the container and the value read may *)
(* come out as anything.                                               *)
(* ------------------------------------------------------------------ *)

\* Handlers that touch the registry, by route: insert (pause, stop), erase
\* (resume), count (dequeue), iteration (state).
RegistryOps == {"pause", "resume", "dequeue", "stop", "state"}

IsWrite(op) == op \in {"pause", "resume", "stop"}

\* Thread t is inside a member call on g_paused_agents.
InRegistry(t) == call[t].pc = "registry"

\* A handler enters its member call on g_paused_agents.
RegBegin(t, op, agent) ==
    /\ call[t].pc = "idle"
    /\ LET clash == \E u \in Threads \ {t} :
                       InRegistry(u) /\ (IsWrite(op) \/ IsWrite(call[u].op))
       IN  call' = [u \in Threads |->
                      IF u = t
                      THEN [IdleCall EXCEPT !.pc = "registry", !.op = op,
                                            !.agent = agent, !.raced = clash]
                      ELSE IF clash /\ InRegistry(u)
                      THEN [call[u] EXCEPT !.raced = TRUE]
                      ELSE call[u]]
    /\ UNCHANGED <<high, low, inflight, paused, resp, th, stopSent, worker, mtx>>
    /\ UNCHANGED hist

\* What a read of the registry returns: count as a boolean, the iteration as
\* the set of names.
RegistryValue(op, agent, p) ==
    CASE op = "dequeue" -> <<agent \in p>>
      [] op = "state" -> <<p>>
      [] OTHER -> <<>>

\* The member call returns.  Undisturbed, insert adds the agent, erase removes
\* it and the reads return what the set holds; after a race the set (for a
\* write) and the value read are arbitrary.
RegEnd(t) ==
    /\ InRegistry(t)
    /\ LET c == call[t] IN
       IF c.raced
       THEN /\ IF IsWrite(c.op) THEN paused' \in SUBSET Agents ELSE paused' = paused
            /\ \E p \in SUBSET Agents :
                  call' = [call EXCEPT ![t] =
                             [c EXCEPT !.pc = "after",
                                       !.ret = RegistryValue(c.op, c.agent, p)]]
       ELSE /\ paused' = CASE c.op \in {"pause", "stop"} -> paused \cup {c.agent}
                           [] c.op = "resume" -> paused \ {c.agent}
                           [] OTHER -> paused
            /\ call' = [call EXCEPT ![t] =
                          [c EXCEPT !.pc = "after",
                                    !.ret = RegistryValue(c.op, c.agent, paused)]]
    /\ UNCHANGED <<high, low, inflight, resp, th, stopSent, worker, mtx>>
    /\ UNCHANGED hist

\* The rest of the handler after its registry access: the response of pause,
\* resume and state; the 204 or the dequeue_for_agent of /dequeue; the
\* cancel_queued_for_agent and the response of /control/stop.
RegReturn(t) ==
    /\ call[t].pc = "after"
    /\ LET c == call[t] IN
       CASE c.op \in {"pause", "resume"} ->
              /\ resp' = OkBody(c.agent, TRUE)
              /\ UNCHANGED <<high, low, inflight, paused>>
              /\ UNCHANGED hist
         [] c.op = "state" ->
              /\ resp' = StateBody(c.ret[1])
              /\ UNCHANGED <<high, low, inflight, paused>>
              /\ UNCHANGED hist
         [] c.op = "dequeue" ->
              IF c.ret[1]
              THEN /\ resp' = NoContent(c.agent)
                   /\ UNCHANGED <<high, low, inflight, paused>>
                   /\ UNCHANGED hist
              ELSE Dispatch(c.agent)
         [] c.op = "stop" ->
              LET x == cancel_queued_for_agent(high, low, c.agent) IN
              /\ high' = x.high
              /\ low' = x.low
              /\ resp' = StopBody(c.agent, x.removed)
              /\ nCancel' = nCancel + x.removed
              /\ UNCHANGED <<inflight, paused, nEnq, nDeq, nComplete, returned>>
    /\ call' = [call EXCEPT ![t] = IdleCall]
    /\ UNCHANGED <<th, stopSent, worker, mtx>>

\* The handlers that fill and drain the queue without touching the registry
\* (enqueue, DELETE /jobs, complete), on any thread that is free.
RegOther ==
    /\ \E t \in Threads : call[t].pc = "idle"
    /\ \/ /\ nEnq < MaxRegJobs
          /\ \E a \in Agents, m \in Models, p \in Priorities :
                HandleEnqueue(NoId, a, m, p)
       \/ \E a \in Agents : HandleDeleteJobs(a)
       \/ \E id \in CompleteIds(MaxRegJobs) \ {NoId} : HandleComplete(id, TRUE)

NextReg ==
    \/ RegOther
    \/ \E t \in Threads :
          \/ \E op \in RegistryOps \ {"state"}, a \in Agents : RegBegin(t, op, a)
          \/ RegBegin(t, "state", NoAgent)
          \/ RegEnd(t)
          \/ RegReturn(t)

SpecReg == Init /\ [][NextReg]_vars

(* ------------------------------------------------------------------ *)
(* Properties                                                          *)
(* ------------------------------------------------------------------ *)

\* The ordinal of the request that stored job j.
Ord(j) == Parse(j.payload).i

\* The jobs in the inflight table.
InflightJobs == {inflight[k] : k \in DOMAIN inflight}

\* Number of jobs of the agent in lane q.
CountFor(q, agent) == Cardinality({i \in 1..Len(q) : q[i].agent = agent})

\* Number of live places that hold the job stored by the n-th enqueue.
Places(n) ==
    Cardinality({i \in 1..Len(high) : Ord(high[i]) = n})
    + Cardinality({i \in 1..Len(low) : Ord(low[i]) = n})
    + Cardinality({k \in DOMAIN inflight : Ord(inflight[k]) = n})

\* Number of live places that hold a job with this id.
PlacesOfId(id) ==
    Cardinality({i \in 1..Len(high) : high[i].id = id})
    + Cardinality({i \in 1..Len(low) : low[i].id = id})
    + Cardinality({k \in DOMAIN inflight : inflight[k].id = id})

\* C1: between two completes of an id, at most one dequeue returns a job with
\* that id.
C1_OneDequeuePerId == \A id \in AllIds : returned[id] <= 1

\* C2: every job that was enqueued is in at most one live place (one position
\* of one lane, or the inflight table), or in none (retired); every job in a
\* live place is one that was enqueued.
C2_OnePlacePerJob ==
    /\ \A n \in 1..nEnq : Places(n) <= 1
    /\ \A i \in 1..Len(high) : Ord(high[i]) \in 1..nEnq
    /\ \A i \in 1..Len(low) : Ord(low[i]) \in 1..nEnq
    /\ \A j \in InflightJobs : Ord(j) \in 1..nEnq

\* C2 witness: one job is inflight while another, promoted from low by
\* bring_forward, sits in the high lane.
C2_Witness ==
    /\ inflight # <<>>
    /\ \E i \in 1..Len(high) : high[i].priority = "low"
    /\ resp.kind = "ok" /\ resp.flag

\* C3: no id is in two live places.
C3_IdsUnique == \A id \in AllIds : PlacesOfId(id) <= 1

\* The response of this step carries a job of the agent that the step took out
\* of the high lane, leaving the low lane alone.
TakenFromHigh(agent) ==
    /\ resp'.kind = "job"
    /\ \E i \in 1..Len(high) :
          /\ high[i].agent = agent
          /\ resp'.job = <<JobJson(high[i])>>
          /\ high' = Erase(high, i)
    /\ low' = low

\* C4 as stated: whenever the high lane holds a job for A, GET /dequeue?agent=A
\* returns a job taken from the high lane.
C4_HighFirstAlways ==
    [][\A a \in Agents :
          (HandleDequeue(a) /\ FirstFor(high, a) # 0) => TakenFromHigh(a)]_vars

\* C4 amended: whenever the high lane holds a job for A and A is not paused,
\* GET /dequeue?agent=A returns a job taken from the high lane.
C4_HighFirstUnpaused ==
    [][\A a \in Agents :
          (HandleDequeue(a) /\ a \notin paused /\ FirstFor(high, a) # 0)
             => TakenFromHigh(a)]_vars

\* C4 witness: a dequeue answered with a high-priority job while an older job
\* of the same agent waits in the low lane.
C4_Witness ==
    /\ resp.kind = "job"
    /\ resp.job[1].priority = "high"
    /\ \E i \in 1..Len(low) :
          /\ low[i].agent = resp.agent
          /\ Ord(low[i]) < resp.job[1].payload.i

\* The jobs of the agent stand in lane q in the order they were enqueued.
InEnqueueOrder(q, agent) ==
    \A i, k \in 1..Len(q) :
        (i < k /\ q[i].agent = agent /\ q[k].agent = agent) => Ord(q[i]) < Ord(q[k])

\* The step is a skip_next or a bring_forward.
Reorders == \E b \in Agents : HandleSkipNext(b) \/ HandleBringForward(b)

\* C5: a step that changes a lane and is no skip_next or bring_forward keeps the jobs of every
\* agent in each lane in enqueue order, and a dequeue for A that takes a job
\* out of such a lane returns the job of A enqueued first among those of A in
\* that lane, whatever jobs of other agents the lane holds.
C5_FifoWithinLane ==
    [][(<<high, low>>' # <<high, low>> /\ ~Reorders) =>
          \A a \in Agents :
             /\ InEnqueueOrder(high, a) => InEnqueueOrder(high', a)
             /\ InEnqueueOrder(low, a) => InEnqueueOrder(low', a)
             /\ (HandleDequeue(a) /\ resp'.kind = "job") =>
                   /\ (high' # high /\ InEnqueueOrder(high, a)) =>
                         \A i \in 1..Len(high) :
                            high[i].agent = a => resp'.job[1].payload.i <= Ord(high[i])
                   /\ (low' # low /\ InEnqueueOrder(low, a)) =>
                         \A i \in 1..Len(low) :
                            low[i].agent = a => resp'.job[1].payload.i <= Ord(low[i])
       ]_vars

\* C5 witness: of three low jobs enqueued for A, B, A the first was returned to
\* A; the job of B and the later job of A are left, in that order.
C5_Witness ==
    /\ resp.kind = "job"
    /\ resp.job[1].payload.i = 1
    /\ resp.job[1].priority = "low"
    /\ Len(low) = 2
    /\ low[1].agent # resp.agent /\ Ord(low[1]) = 2
    /\ low[2].agent = resp.agent /\ Ord(low[2]) = 3

\* C6: once /control/pause?agent=A is answered A is in the pause set and stays
\* there until a /control/resume?agent=A; while it is there every
\* GET /dequeue?agent=A is answered 204 and moves no job; a dequeue for A made
\* while A is not paused returns the head-for-agent job of A.
C6_PauseBlocksDispatch ==
    [][\A a \in Agents :
          /\ HandlePause(a) => a \in paused'
          /\ (a \in paused /\ ~HandleResume(a)) => a \in paused'
          /\ (a \in paused /\ HandleDequeue(a)) =>
                /\ resp' = NoContent(a)
                /\ UNCHANGED <<high, low, inflight>>
          /\ (a \notin paused /\ HandleDequeue(a)
                /\ peek_for_agent(high, low, a) # <<>>) =>
                /\ resp' = JobBody(a, peek_for_agent(high, low, a)[1].job)
                /\ inflight' # inflight
       ]_vars

\* C6 witness: a request for agent A was answered 204 while A is paused and has
\* a job in a lane (a peek would have answered 200).
C6_Witness ==
    /\ resp.status = 204
    /\ resp.agent \in paused
    /\ FirstFor(high, resp.agent) # 0 \/ FirstFor(low, resp.agent) # 0

\* C8: when /control/stop?agent=A is answered, A is in the pause set, no lane
\* holds a job of A, and removed is the number of jobs of A the lanes held.
C8_StopDrains ==
    [][\A a \in Agents :
          HandleStop(a) =>
             /\ a \in paused'
             /\ CountFor(high', a) = 0
             /\ CountFor(low', a) = 0
             /\ resp'.kind = "stopped"
             /\ resp'.num = CountFor(high, a) + CountFor(low, a)
       ]_vars

\* C8 witness: a stop was answered with removed = 2, the two queued jobs of
\* the agent.
C8_Witness ==
    /\ resp.kind = "stopped"
    /\ resp.num = 2
    /\ resp.agent \in paused
    /\ nCancel = 2
    /\ Len(high) + Len(low) = 0
    /\ nEnq = 2 /\ nDeq = 0

\* C10: enqueued - dequeued - cancelled is the number of queued jobs, and
\* dequeued - completed is the number of inflight jobs.
C10_CountsMatch ==
    /\ nEnq - nDeq - nCancel = Len(high) + Len(low)
    /\ nDeq - nComplete = Cardinality(DOMAIN inflight)

C11_BringForwardThenDequeue ==
    [][\A a \in Agents :
          LET p == peek_for_agent(high, low, a) IN
          /\ (HandleBringForward(a) /\ p # <<>>) =>
                /\ resp' = OkBody(a, TRUE)
                /\ UNCHANGED <<inflight, paused>>
                /\ peek_for_agent(high', low', a) # <<>>
                /\ peek_for_agent(high', low', a)[1].job = p[1].job
                /\ peek_for_agent(high', low', a)[1].lane = "high"
                /\ peek_for_agent(high', low', a)[1].position = 0
          /\ (HandleDequeue(a) /\ a \notin paused /\ p # <<>>) =>
                /\ resp' = JobBody(a, p[1].job)
                /\ p[1].job.id \in DOMAIN inflight'
       ]_vars

\* C11 witness: a bring_forward for an unpaused agent was answered true and
\* its job, enqueued second with priority low, now heads the high lane while
\* the job enqueued first, of another agent, still waits in low.
C11_Witness ==
    /\ resp = OkBody(resp.agent, TRUE)
    /\ resp.agent \in Agents \ paused
    /\ Len(high) = 1 /\ Len(low) = 1
    /\ high[1].agent = resp.agent /\ high[1].priority = "low" /\ Ord(high[1]) = 2
    /\ low[1].agent # resp.agent /\ Ord(low[1]) = 1

C15_CompleteIdempotent ==
    [][\A id \in AllIds :
          HandleComplete(id, TRUE) =>
             /\ resp' = OkBody(NoAgent, TRUE)
             /\ UNCHANGED <<high, low, paused>>
             /\ id \notin DOMAIN inflight => inflight' = inflight
             /\ id \notin DOMAIN inflight'
             /\ \A k \in (DOMAIN inflight) \ {id} :
                   k \in DOMAIN inflight' /\ inflight'[k] = inflight[k]
             /\ complete(inflight', id) = inflight'
       ]_vars

\* C15 witness: a complete was answered 200 although no complete ever erased an
\* inflight entry: its id was not inflight, while one job is inflight and
\* another is queued.
C15_Witness ==
    /\ resp = OkBody(NoAgent, TRUE)
    /\ nComplete = 0
    /\ Cardinality(DOMAIN inflight) = 1
    /\ Len(high) + Len(low) = 1

\* C16: pause inserts the agent and resume erases it, whatever the registry
\* held: a pause of a paused agent and a resume of an unpaused one leave the
\* registry, and with it the /control/state response, as they were; after a
\* resume of A, A is not in the registry; /control/state lists the registry.
C16_PauseResumeIdempotent ==
    [][/\ \A a \in Agents :
             /\ HandlePause(a) =>
                   /\ paused' = paused \cup {a}
                   /\ a \in paused =>
                         paused' = paused /\ StateBody(paused') = StateBody(paused)
                   /\ resp' = OkBody(a, TRUE)
             /\ HandleResume(a) =>
                   /\ paused' = paused \ {a}
                   /\ a \notin paused =>
                         paused' = paused /\ StateBody(paused') = StateBody(paused)
                   /\ a \notin paused'
                   /\ resp' = OkBody(a, TRUE)
             /\ (HandlePause(a) \/ HandleResume(a)) => UNCHANGED <<high, low, inflight>>
       /\ HandleState =>
             /\ resp'.status = 200 /\ resp'.kind = "paused" /\ resp'.list = paused
             /\ UNCHANGED <<high, low, inflight, paused>>
      ]_vars

\* C16 witness: /control/state was answered with one paused agent while the
\* other is not paused.
C16_Witness ==
    /\ resp.kind = "paused"
    /\ Cardinality(resp.list) = 1
    /\ resp.list = paused

\* The jobs of lane q that are not of the agent, in lane order.
Others(q, agent) == SelectSeq(q, LAMBDA j : j.agent # agent)

\* C17: a dequeue for B returns only a job of B; it leaves the jobs of every
\* other agent in their lanes and in their order, and the inflight entries in
\* place; when no lane holds a job of B it answers 204 and changes nothing,
\* whatever jobs of other agents are queued.
C17_AgentIsolation ==
    [][\A b \in Agents :
          HandleDequeue(b) =>
             /\ resp'.kind = "job" => resp'.job[1].agent = b
             /\ Others(high', b) = Others(high, b)
             /\ Others(low', b) = Others(low, b)
             /\ \A k \in DOMAIN inflight :
                   k \in DOMAIN inflight' /\ inflight'[k] = inflight[k]
             /\ (CountFor(high, b) = 0 /\ CountFor(low, b) = 0) =>
                   /\ resp' = NoContent(b)
                   /\ UNCHANGED <<high, low, inflight>>
       ]_vars

\* C17 witness: a dequeue returned the job enqueued second to its agent while
\* the job enqueued first, of another agent, stays at the head of the same
\* lane.
C17_Witness ==
    /\ resp.kind = "job"
    /\ resp.job[1].payload.i = 2
    /\ resp.job[1].priority = "low"
    /\ high = <<>> /\ Len(low) = 1
    /\ low[1].agent # resp.agent /\ Ord(low[1]) = 1

\* C18: DELETE /jobs?agent=A (and the cancel inside /control/stop) removes
\* from both lanes the jobs of A and no other, keeps the rest in order and
\* leaves inflight as it was; DELETE /jobs answers the number removed.
C18_CancelExact ==
    [][\A a \in Agents :
          /\ (HandleDeleteJobs(a) \/ HandleStop(a)) =>
                /\ high' = Others(high, a)
                /\ low' = Others(low, a)
                /\ inflight' = inflight
                /\ resp'.num = CountFor(high, a) + CountFor(low, a)
                /\ resp'.num = (Len(high) - Len(high')) + (Len(low) - Len(low'))
          /\ HandleDeleteJobs(a) =>
                /\ resp'.status = 200 /\ resp'.kind = "removed"
                /\ paused' = paused
       ]_vars

\* C18 witness: DELETE /jobs was answered removed = 1 for an agent that has a
\* job inflight, which stays there.
C18_Witness ==
    /\ resp.kind = "removed"
    /\ resp.num = 1
    /\ \E k \in DOMAIN inflight : inflight[k].agent = resp.agent
    /\ nCancel = 1 /\ nDeq = 1

\* What GET /peek?agent=a answers: the lowest-index job of a in high with lane
\* "high" and its 0-based index, else the same for low, else 204; no state
\* changes.
PeekAnswer(a) ==
    /\ UNCHANGED <<high, low, inflight, paused>>
    /\ IF CountFor(high, a) > 0
       THEN \E i \in 1..Len(high) :
               /\ high[i].agent = a
               /\ \A k \in 1..(i - 1) : high[k].agent # a
               /\ resp'.status = 200 /\ resp'.kind = "peek"
               /\ resp'.job = <<JobJson(high[i])>>
               /\ resp'.lane = "high" /\ resp'.num = i - 1
       ELSE IF CountFor(low, a) > 0
       THEN \E i \in 1..Len(low) :
               /\ low[i].agent = a
               /\ \A k \in 1..(i - 1) : low[k].agent # a
               /\ resp'.status = 200 /\ resp'.kind = "peek"
               /\ resp'.job = <<JobJson(low[i])>>
               /\ resp'.lane = "low" /\ resp'.num = i - 1
       ELSE resp' = NoContent(a)

\* C19 as stated: peek answers the head-for-agent job with its lane and
\* 0-based index, 204 when no lane holds a job of A (inflight jobs of A or
\* not), and a dequeue for A returns the job a peek reports in the same state.
C19_PeekIsNextDequeue ==
    [][\A a \in Agents :
          /\ HandlePeek(a) => PeekAnswer(a)
          /\ (HandleDequeue(a) /\ peek_for_agent(high, low, a) # <<>>) =>
                resp' = JobBody(a, peek_for_agent(high, low, a)[1].job)
       ]_vars

\* C19 amended: the same, the dequeue being for an agent that is not paused.
C19_PeekIsNextDequeueUnpaused ==
    [][\A a \in Agents :
          /\ HandlePeek(a) => PeekAnswer(a)
          /\ (HandleDequeue(a) /\ a \notin paused
                /\ peek_for_agent(high, low, a) # <<>>) =>
                resp' = JobBody(a, peek_for_agent(high, low, a)[1].job)
       ]_vars

\* C19 witness: a peek reported a job at index 1 of low, behind a job of
\* another agent.
C19_Witness ==
    /\ resp.kind = "peek"
    /\ resp.lane = "low" /\ resp.num = 1
    /\ Len(low) = 2
    /\ resp.job = <<JobJson(low[2])>>
    /\ low[1].agent # resp.agent

\* C20: skip_next answers true exactly when a lane holds a job of A; it then
\* takes the head-for-agent job of A out of its lane and appends it to that
\* lane, the other lane and the order of the other jobs staying as they were;
\* inflight and the pause set are untouched; answering false it changes
\* nothing.
C20_SkipNextSameLane ==
    [][\A a \in Agents :
          HandleSkipNext(a) =>
             /\ resp' = OkBody(a, CountFor(high, a) + CountFor(low, a) > 0)
             /\ UNCHANGED <<inflight, paused>>
             /\ CountFor(high, a) > 0 =>
                   /\ low' = low
                   /\ \E i \in 1..Len(high) :
                         /\ high[i].agent = a
                         /\ \A k \in 1..(i - 1) : high[k].agent # a
                         /\ high' = SubSeq(high, 1, i - 1)
                                       \o SubSeq(high, i + 1, Len(high)) \o <<high[i]>>
             /\ (CountFor(high, a) = 0 /\ CountFor(low, a) > 0) =>
                   /\ high' = high
                   /\ \E i \in 1..Len(low) :
                         /\ low[i].agent = a
                         /\ \A k \in 1..(i - 1) : low[k].agent # a
                         /\ low' = SubSeq(low, 1, i - 1)
                                      \o SubSeq(low, i + 1, Len(low)) \o <<low[i]>>
             /\ (CountFor(high, a) = 0 /\ CountFor(low, a) = 0) =>
                   UNCHANGED <<high, low>>
       ]_vars

\* C20 witness: a skip_next was answered true and the job enqueued first now
\* stands in the high lane behind the job enqueued second.
C20_Witness ==
    /\ resp = OkBody(resp.agent, TRUE)
    /\ low = <<>> /\ Len(high) = 2
    /\ Ord(high[1]) = 2 /\ Ord(high[2]) = 1
    /\ high[1].priority = "high" /\ high[2].priority = "high"
    /\ high[2].agent = resp.agent

\* Copies of the job stored by the n-th enqueue in a snapshot result.
ViewPlaces(v, n) ==
    Cardinality({i \in 1..Len(v.high) : Ord(v.high[i]) = n})
    + Cardinality({i \in 1..Len(v.low) : Ord(v.low[i]) = n})
    + Cardinality({j \in v.inflight : Ord(j) = n})

\* On return, the collections and the result of the call of thread t are what
\* the method does as one step to the collections found when it took the lock.
Serial(t) ==
    LET c == call[t]
        h0 == c.pre[1]
        l0 == c.pre[2]
        i0 == c.pre[3]
        now == <<high, low, inflight>>
    IN  CASE c.op = "enqueue" ->
               LET e == enqueue(h0, l0, c.job[1])
               IN  now = <<e.high, e.low, i0>> /\ c.ret = c.job
          [] c.op = "dequeue" ->
               LET d == dequeue_for_agent(h0, l0, i0, c.agent)
               IN  now = <<d.high, d.low, d.inflight>> /\ c.ret = d.job
          [] c.op = "complete" ->
               now = <<h0, l0, complete(i0, c.id)>>
          [] c.op = "snapshot" ->
               /\ now = c.pre
               /\ c.ret = <<snapshot(h0, l0, i0)>>
               /\ \A n \in 1..nEnq :
                     ViewPlaces(c.ret[1], n) <= 1 /\ ViewPlaces(c.ret[1], n) = Places(n)
          [] c.op = "cancel" ->
               LET x == cancel_queued_for_agent(h0, l0, c.agent)
               IN  now = <<x.high, x.low, i0>> /\ c.ret = <<x.removed>>
          [] c.op = "peek" ->
               now = c.pre /\ c.ret = peek_for_agent(h0, l0, c.agent)
          [] c.op = "skip_next" ->
               LET x == skip_next_for_agent(h0, l0, c.agent)
               IN  now = <<x.high, x.low, i0>> /\ c.ret = <<x.moved>>
          [] c.op = "bring_forward" ->
               LET x == bring_forward_for_agent(h0, l0, c.agent)
               IN  now = <<x.high, x.low, i0>> /\ c.ret = <<x.moved>>

\* C12: at most one thread is inside the body of a queue-core method, and it
\* is the holder of mtx_; while a thread is inside, the collections change only
\* by its own steps; and on return the collections and the result are those of
\* the whole method applied to the collections found at the lock, so the calls
\* take effect one whole call after another in the order of their locks.  For
\* snapshot: the result is the three collections of one instant, each job in
\* as many places of it as it then was in, never more than one.
C12_CoreAtomic ==
    /\ [](\A t, u \in Threads :
            /\ InCore(t) <=> mtx = t
            /\ (InCore(t) /\ InCore(u)) => t = u)
    /\ [][\A t \in Threads :
            /\ (InCore(t) /\ <<high, low, inflight>>' # <<high, low, inflight>>) =>
                  call'[t] # call[t]
            /\ Unlock(t) => Serial(t)
         ]_vars

\* C12 witness: one thread is in dequeue_for_agent between the erase and the
\* emplace, its job in no collection, while the other waits for the lock at
\* the start of snapshot.
C12_Witness ==
    \E t, u \in Threads :
        /\ call[t].op = "dequeue" /\ call[t].pc = "insert"
        /\ Places(Ord(call[t].job[1])) = 0
        /\ mtx = t
        /\ call[u].op = "snapshot" /\ call[u].pc = "waiting"

JobsOf(q, agent) == SelectSeq(q, LAMBDA j : j.agent = agent)

\* The sequence with its head moved to its tail.
Rotated(q) == Tail(q) \o <<Head(q)>>

\* A skip_next for a that finds two or more jobs of a in the lane of its
\* head-for-agent job answers true and rotates the jobs of a in that lane, the
\* other lane staying as it was.
SkipRotatesLane(a) ==
    /\ (CountFor(high, a) >= 2 /\ resp'.kind = "ok" /\ HandleSkipNext(a)) =>
          /\ resp' = OkBody(a, TRUE)
          /\ JobsOf(high', a) = Rotated(JobsOf(high, a))
          /\ low' = low
    /\ (CountFor(high, a) = 0 /\ CountFor(low, a) >= 2 /\ resp'.kind = "ok"
           /\ HandleSkipNext(a)) =>
          /\ resp' = OkBody(a, TRUE)
          /\ JobsOf(low', a) = Rotated(JobsOf(low, a))
          /\ high' = high

\* This dequeue for a returns the first of the jobs of a in the lane of its
\* head-for-agent job and leaves the rest of them in their order.
DequeueTakesFirst(a) ==
    /\ CountFor(high, a) > 0 =>
          /\ resp' = JobBody(a, Head(JobsOf(high, a)))
          /\ JobsOf(high', a) = Tail(JobsOf(high, a))
          /\ JobsOf(low', a) = JobsOf(low, a)
    /\ (CountFor(high, a) = 0 /\ CountFor(low, a) > 0) =>
          /\ resp' = JobBody(a, Head(JobsOf(low, a)))
          /\ JobsOf(low', a) = Tail(JobsOf(low, a))
          /\ JobsOf(high', a) = JobsOf(high, a)

\* C21 as stated: skip_next rotates the jobs of A in the lane of its
\* head-for-agent job, and every dequeue for A returns the first job of A in
\* that lane, leaving the others in order; so the dequeues after a skip_next
\* return the second job, then the others, then the skipped one.
C21_SkipRotates ==
    [][\A a \in Agents :
          /\ SkipRotatesLane(a)
          /\ (resp'.kind \in {"job", ""} /\ HandleDequeue(a)) =>
                DequeueTakesFirst(a)
       ]_vars

\* C21 amended: the same, the dequeues being for an agent that is not paused.
C21_SkipRotatesUnpaused ==
    [][\A a \in Agents :
          /\ SkipRotatesLane(a)
          /\ (a \notin paused /\ resp'.kind \in {"job", ""}
                 /\ HandleDequeue(a)) => DequeueTakesFirst(a)
       ]_vars

\* C21 witness: the first dequeue returned the job enqueued second while the
\* job enqueued first, of the same agent and priority, is the one left in the
\* lane.
C21_Witness ==
    /\ resp.kind = "job"
    /\ resp.job[1].payload.i = 2 /\ resp.job[1].priority = "low"
    /\ nDeq = 1
    /\ high = <<>> /\ Len(low) = 1
    /\ low[1].agent = resp.agent /\ Ord(low[1]) = 1 /\ low[1].priority = "low"

\* C22: a skip_next for an agent with exactly one queued job answers true and
\* leaves that job in its lane as the head-for-agent job of the agent; a
\* dequeue for an unpaused agent returns its head-for-agent job.
C22_SkipSingleKeepsJob ==
    [][\A a \in Agents :
          LET p == peek_for_agent(high, low, a) IN
          /\ (CountFor(high, a) + CountFor(low, a) = 1 /\ resp'.kind = "ok"
                 /\ HandleSkipNext(a)) =>
                /\ resp' = OkBody(a, TRUE)
                /\ CountFor(high', a) = CountFor(high, a)
                /\ CountFor(low', a) = CountFor(low, a)
                /\ peek_for_agent(high', low', a) # <<>>
                /\ peek_for_agent(high', low', a)[1].job = p[1].job
                /\ peek_for_agent(high', low', a)[1].lane = p[1].lane
                /\ UNCHANGED <<inflight, paused>>
          /\ (a \notin paused /\ p # <<>> /\ resp'.kind \in {"job", ""}
                 /\ HandleDequeue(a)) =>
                resp' = JobBody(a, p[1].job)
       ]_vars

\* C22 witness: a skip_next was answered true for an unpaused agent whose one
\* job, enqueued first, now stands in low behind the job of another agent.
C22_Witness ==
    /\ resp = OkBody(resp.agent, TRUE)
    /\ resp.agent \in Agents \ paused
    /\ high = <<>> /\ Len(low) = 2
    /\ low[2].agent = resp.agent /\ Ord(low[2]) = 1
    /\ low[1].agent # resp.agent /\ Ord(low[1]) = 2

\* C23 as stated: a skip_next for an agent with exactly one queued job leaves
\* the lanes as snapshot returns them, contents and order, as they were.
C23_SkipSingleNoOp ==
    [][\A a \in Agents :
          (CountFor(high, a) + CountFor(low, a) = 1 /\ resp'.kind = "ok"
              /\ HandleSkipNext(a)) =>
             /\ resp' = OkBody(a, TRUE)
             /\ snapshot(high', low', inflight') = snapshot(high, low, inflight)
       ]_vars

\* The one job of the agent is the last job of the lane it is in.
AtTail(a) ==
    \/ CountFor(high, a) = 1 /\ high[Len(high)].agent = a
    \/ CountFor(high, a) = 0 /\ CountFor(low, a) = 1 /\ low[Len(low)].agent = a

\* C23 amended: a skip_next for an agent with exactly one queued job, no job
\* of another agent standing behind it in its lane, leaves the lanes as
\* snapshot returns them as they were; with a job of another agent behind it
\* the order of the lane changes.
C23_SkipSingleNoOpAtTail ==
    [][\A a \in Agents :
          (CountFor(high, a) + CountFor(low, a) = 1 /\ resp'.kind = "ok"
              /\ HandleSkipNext(a)) =>
             /\ resp' = OkBody(a, TRUE)
             /\ AtTail(a) <=>
                   snapshot(high', low', inflight') = snapshot(high, low, inflight)
       ]_vars

\* C23 witness: a skip_next was answered true for the agent whose one job
\* stands last in low, behind the job of another agent, both in enqueue order.
C23_Witness ==
    /\ resp = OkBody(resp.agent, TRUE)
    /\ high = <<>> /\ Len(low) = 2
    /\ low[1].agent # resp.agent /\ Ord(low[1]) = 1
    /\ low[2].agent = resp.agent /\ Ord(low[2]) = 2
    /\ paused = {} /\ inflight = <<>>

\* C24: bring_forward_for_agent(A) returns true exactly when some lane holds a
\* job for A; it then removes the head-for-agent job of A from its lane and
\* inserts it at index 0 of high (a job found in low is promoted), keeping all
\* other jobs in their relative order and inflight unchanged; with the job
\* already at high[0] the state is unchanged and the result still true; when it
\* returns false the state is unchanged.
C24_BringForward ==
    [][\A a \in Agents :
          (resp'.kind = "ok" /\ HandleBringForward(a)) =>
             /\ resp' = OkBody(a, CountFor(high, a) + CountFor(low, a) > 0)
             /\ UNCHANGED <<inflight, paused>>
             /\ CountFor(high, a) > 0 =>
                   \E i \in 1..Len(high) :
                      /\ high[i].agent = a
                      /\ \A k \in 1..(i - 1) : high[k].agent # a
                      /\ high' = <<high[i]>> \o SubSeq(high, 1, i - 1)
                                    \o SubSeq(high, i + 1, Len(high))
                      /\ low' = low
                      /\ i = 1 => high' = high
             /\ (CountFor(high, a) = 0 /\ CountFor(low, a) > 0) =>
                   \E i \in 1..Len(low) :
                      /\ low[i].agent = a
                      /\ \A k \in 1..(i - 1) : low[k].agent # a
                      /\ high' = <<low[i]>> \o high
                      /\ low' = SubSeq(low, 1, i - 1)
                                   \o SubSeq(low, i + 1, Len(low))
             /\ (CountFor(high, a) = 0 /\ CountFor(low, a) = 0) =>
                   UNCHANGED <<high, low>>
       ]_vars

\* C24 witness: bring_forward was answered true and the job of the agent,
\* enqueued second with priority high, stands at high[0] in front of the job
\* of another agent enqueued first.
C24_Witness ==
    /\ resp = OkBody(resp.agent, TRUE)
    /\ low = <<>> /\ Len(high) = 2
    /\ Ord(high[1]) = 2 /\ Ord(high[2]) = 1
    /\ high[1].priority = "high" /\ high[2].priority = "high"
    /\ high[1].agent = resp.agent /\ high[2].agent # resp.agent

\* The job records held by the lanes and the inflight table.
Live ==
    {high[i] : i \in 1..Len(high)} \cup {low[i] : i \in 1..Len(low)}
        \cup InflightJobs

C26_PauseBlocksOnlyDispatch ==
    [][/\ \A a \in paused :
             LET queued == CountFor(high, a) + CountFor(low, a) IN
             /\ \A m \in Models, p \in Priorities :
                   (nEnq' = nEnq + 1 /\ HandleEnqueue(NoId, a, m, p)) =>
                      IF p = "high"
                      THEN /\ high' = Append(high, high'[Len(high')])
                           /\ high'[Len(high')].agent = a /\ low' = low
                      ELSE /\ low' = Append(low, low'[Len(low')])
                           /\ low'[Len(low')].agent = a /\ high' = high
             /\ (resp'.agent = a /\ HandleDeleteJobs(a)) =>
                   /\ resp'.num = queued
                   /\ CountFor(high', a) = 0 /\ CountFor(low', a) = 0
             /\ (resp'.agent = a /\ HandlePeek(a)) => PeekAnswer(a)
             /\ (queued > 0 /\ resp'.agent = a /\ HandleSkipNext(a)) =>
                   /\ resp' = OkBody(a, TRUE)
                   /\ IF CountFor(high, a) > 0
                      THEN high'[Len(high')].agent = a /\ low' = low
                      ELSE low'[Len(low')].agent = a /\ high' = high
             /\ (queued > 0 /\ resp'.agent = a /\ HandleBringForward(a)) =>
                   /\ resp' = OkBody(a, TRUE)
                   /\ high'[1].agent = a
                   /\ CountFor(low, a) = queued => Len(high') = Len(high) + 1
       /\ \A k \in DOMAIN inflight :
             (inflight[k].agent \in paused /\ resp'.kind = "ok"
                 /\ HandleComplete(k, TRUE)) =>
                /\ resp' = OkBody(NoAgent, TRUE)
                /\ k \notin DOMAIN inflight'
                /\ UNCHANGED <<high, low, paused>>
       /\ \A a \in Agents :
             (resp'.kind = "ok" /\ (HandlePause(a) \/ HandleResume(a))) =>
                UNCHANGED <<high, low, inflight>>
       ]_vars

\* C26 witness: an enqueue was answered with the id of the job it stored at
\* the tail of low for an agent that is in the pause set, one job of that
\* agent being inflight.
C26_Witness ==
    /\ resp.kind = "id"
    /\ Len(low) = 1 /\ low[1].id = resp.id /\ low[1].agent \in paused
    /\ \E k \in DOMAIN inflight : inflight[k].agent = low[1].agent

\* C27: each route that needs an agent answers 400 with the error "agent
\* query parameter required" when the parameter is missing or empty, and then
\* changes neither the lanes, nor inflight, nor the pause set.
C27_AgentRequired ==
    [][(\/ HandleDequeue(NoAgent) \/ HandlePause(NoAgent)
        \/ HandleResume(NoAgent) \/ HandleDeleteJobs(NoAgent)
        \/ HandlePeek(NoAgent) \/ HandleSkipNext(NoAgent)
        \/ HandleBringForward(NoAgent) \/ HandleStop(NoAgent)) =>
          /\ resp'.status = 400 /\ resp'.error = ErrAgent
          /\ resp' = ErrorBody(NoAgent, ErrAgent)
          /\ UNCHANGED <<high, low, inflight, paused>>
       ]_vars

\* C27 witness: a request without agent was answered 400 with the error while
\* a lane holds a job, a job is inflight and an agent is paused.
C27_Witness ==
    /\ resp.status = 400 /\ resp.error = ErrAgent
    /\ Len(high) = 1 /\ low = <<>>
    /\ DOMAIN inflight # {} /\ paused # {}

\* C28: POST /enqueue stores a job only when agent and model are both present,
\* strings and non-empty; otherwise the response is 400 and no job is added to
\* either lane.
C28_EnqueueNeedsAgentModel ==
    [][\A af \in AgentFields, mf \in ModelFields, p \in Priorities :
          HandleEnqueueBody(af, mf, p) =>
             IF af \in {"", Missing, NotString} \/ mf \in {"", Missing, NotString}
             THEN resp'.status = 400 /\ UNCHANGED <<high, low>>
             ELSE /\ resp'.status = 200
                  /\ Len(high') + Len(low') = Len(high) + Len(low) + 1
       ]_vars

\* Where the job stored by the n-th enqueue is.
LocOf(n) ==
    IF n > nEnq THEN "unborn"
    ELSE IF \E i \in 1..Len(high) : Ord(high[i]) = n THEN "high"
    ELSE IF \E i \in 1..Len(low) : Ord(low[i]) = n THEN "low"
    ELSE IF \E k \in DOMAIN inflight : Ord(inflight[k]) = n THEN "inflight"
    ELSE "retired"

\* The index of the job stored by the n-th enqueue in lane q, 0 when absent.
IndexOf(q, n) ==
    IF \E i \in 1..Len(q) : Ord(q[i]) = n
    THEN CHOOSE i \in 1..Len(q) : Ord(q[i]) = n
    ELSE 0

\* Jobs n and k stand in lane q in this order.
Before(q, n, k) ==
    IndexOf(q, n) # 0 /\ IndexOf(q, k) # 0 /\ IndexOf(q, n) < IndexOf(q, k)

\* C29: a job enters a lane only by enqueue, enters inflight only from a lane
\* by dequeue, changes lane or its order among the jobs of its lane only by
\* skip_next or bring_forward, and is retired only from a lane by cancel (DELETE
\* /jobs, stop) or from inflight by complete; no other change of place
\* happens, so no job leaves inflight for a lane and no retired job reappears.
C29_LegalTransitions ==
    [][\A n \in 1..MaxIdJobs :
          /\ \/ LocOf(n)' = LocOf(n)
             \/ /\ LocOf(n) = "unborn" /\ LocOf(n)' \in {"high", "low"}
                /\ nEnq' = nEnq + 1
             \/ /\ LocOf(n) \in {"high", "low"} /\ LocOf(n)' = "inflight"
                /\ \E a \in Agents : HandleDequeue(a)
             \/ /\ LocOf(n) = "low" /\ LocOf(n)' = "high"
                /\ \E a \in Agents : HandleBringForward(a)
             \/ /\ LocOf(n) \in {"high", "low"} /\ LocOf(n)' = "retired"
                /\ \E a \in Agents : HandleDeleteJobs(a) \/ HandleStop(a)
             \/ /\ LocOf(n) = "inflight" /\ LocOf(n)' = "retired"
                /\ \E id \in AllIds : HandleComplete(id, TRUE)
          /\ \A k \in 1..MaxIdJobs :
                (\/ Before(high, n, k) /\ Before(high', k, n)
                 \/ Before(low, n, k) /\ Before(low', k, n)) =>
                   \E a \in Agents : HandleSkipNext(a) \/ HandleBringForward(a)
       ]_vars

\* C30: a job in the inflight table stays there, its record unchanged, in no
\* lane and returned by no dequeue, through every step that is not the
\* POST /complete of its id: enqueue, dequeue for any agent, DELETE /jobs,
\* stop, pause, resume, skip_next, bring_forward, peek and GET /stats leave it in
\* place, and no step happens without a request.
C30_InflightPinned ==
    [][\A k \in DOMAIN inflight :
          \/ /\ k \in DOMAIN inflight' /\ inflight'[k] = inflight[k]
             /\ \A i \in 1..Len(high') : high'[i].id # k
             /\ \A i \in 1..Len(low') : low'[i].id # k
             /\ ~(resp'.kind = "job" /\ resp'.job[1].id = k)
          \/ HandleComplete(k, TRUE)
       ]_vars

\* C30 witness: GET /stats reports one inflight job, the one enqueued first,
\* after a stop of its agent that cancelled the job enqueued second.
C30_Witness ==
    /\ resp.kind = "stats"
    /\ resp.stats[1].metrics.inflight = 1
    /\ \E k \in DOMAIN inflight :
          Ord(inflight[k]) = 1 /\ inflight[k].agent \in paused
    /\ high = <<>> /\ low = <<>>
    /\ nEnq = 2 /\ nCancel = 1 /\ nComplete = 0

\* C31: every request answered with 400 leaves the high lane, the low lane,
\* the inflight table and the pause set as they were; a POST /complete/{id}
\* with an empty id or a body that fails to parse is answered 400 and does not
\* retire the inflight job.
C31_BadRequestNoEffect ==
    [][/\ resp'.status = 400 => UNCHANGED <<high, low, inflight, paused>>
       /\ HandleEnqueueBad => resp'.status = 400
       /\ \A id \in CompleteIds(MaxJobs), ok \in BOOLEAN :
             ((id = NoId \/ ~ok) /\ HandleComplete(id, ok)) =>
                /\ resp'.status = 400
                /\ resp'.error = IF id = NoId THEN ErrId ELSE ErrWhat
                /\ inflight' = inflight
       ]_vars

\* C31 witness: a request was answered 400 with the message of a caught
\* exception while the job enqueued first is inflight, the job enqueued second
\* is in low and no agent is paused.
C31_Witness ==
    /\ resp = ErrorBody(NoAgent, ErrWhat)
    /\ \E k \in DOMAIN inflight : Ord(inflight[k]) = 1
    /\ high = <<>> /\ Len(low) = 1 /\ Ord(low[1]) = 2
    /\ paused = {}

\* C32: dequeue_for_agent(A) returns nothing exactly when neither lane holds a
\* job for A, and then both lanes and inflight are unchanged; when it returns
\* a job, exactly that job is removed from its lane and added to inflight, and
\* every other job keeps its lane and relative order.
C32_DequeueFrame ==
    [][\A a \in Agents :
          (a \notin paused /\ resp'.agent = a /\ HandleDequeue(a)) =>
             IF CountFor(high, a) + CountFor(low, a) = 0
             THEN resp' = NoContent(a) /\ UNCHANGED <<high, low, inflight>>
             ELSE \/ \E i \in 1..Len(high) :
                        /\ high[i].agent = a
                        /\ resp' = JobBody(a, high[i])
                        /\ high' = SubSeq(high, 1, i - 1)
                                      \o SubSeq(high, i + 1, Len(high))
                        /\ low' = low
                        /\ InflightJobs' = InflightJobs \cup {high[i]}
                  \/ \E i \in 1..Len(low) :
                        /\ low[i].agent = a
                        /\ resp' = JobBody(a, low[i])
                        /\ low' = SubSeq(low, 1, i - 1)
                                     \o SubSeq(low, i + 1, Len(low))
                        /\ high' = high
                        /\ InflightJobs' = InflightJobs \cup {low[i]}
       ]_vars

\* The sum of f over the set S.
RECURSIVE SumOf(_, _)
SumOf(f, S) ==
    IF S = {} THEN 0
    ELSE LET x == CHOOSE y \in S : TRUE IN f[x] + SumOf(f, S \ {x})

\* C33: in every /stats response queued_high, queued_low and inflight equal
\* the lengths of queues.high, queues.low and inflight of the same response;
\* each by_agent entry counts exactly the jobs of that agent in each of the
\* three collections, every agent of a listed job has an entry, and for each
\* of the three the entries summed over all agents equal the total.
C33_StatsConsistent ==
    resp.kind = "stats" =>
       LET d == resp.stats[1]
           m == d.metrics
           by == m.by_agent
           names == DOMAIN by
       IN  /\ m.queued_high = Len(d.queues.high)
           /\ m.queued_low = Len(d.queues.low)
           /\ m.inflight = Cardinality(d.inflight)
           /\ \A i \in 1..Len(d.queues.high) : d.queues.high[i].agent \in names
           /\ \A i \in 1..Len(d.queues.low) : d.queues.low[i].agent \in names
           /\ \A j \in d.inflight : j.agent \in names
           /\ \A a \in names :
                 /\ by[a].queued_high = Cardinality(
                       {i \in 1..Len(d.queues.high) : d.queues.high[i].agent = a})
                 /\ by[a].queued_low = Cardinality(
                       {i \in 1..Len(d.queues.low) : d.queues.low[i].agent = a})
                 /\ by[a].inflight =
                       Cardinality({j \in d.inflight : j.agent = a})
           /\ SumOf([a \in names |-> by[a].queued_high], names) = m.queued_high
           /\ SumOf([a \in names |-> by[a].queued_low], names) = m.queued_low
           /\ SumOf([a \in names |-> by[a].inflight], names) = m.inflight

\* C33 witness: a /stats response lists one job in high and one inflight, of
\* two different agents.
C33_Witness ==
    /\ resp.kind = "stats"
    /\ resp.stats[1].metrics.queued_high = 1
    /\ resp.stats[1].metrics.queued_low = 0
    /\ resp.stats[1].metrics.inflight = 1
    /\ Cardinality(DOMAIN resp.stats[1].metrics.by_agent) = 2

\* The job stored by the n-th enqueue is a job of the worker's agent and is in
\* a lane.
QueuedForWorker(n) ==
    \/ \E i \in 1..Len(high) : Ord(high[i]) = n /\ high[i].agent = WorkerAgent
    \/ \E i \in 1..Len(low) : Ord(low[i]) = n /\ low[i].agent = WorkerAgent

WorkerCompletesOnce ==
    /\ worker.pc = "work" => worker.calls = 0 /\ worker.task # <<>>
    /\ (worker.pc \in {"poll", "exit"} /\ worker.last # 0) =>
          /\ worker.calls = 1
          /\ worker.status \in {"ok", "error"}
          /\ worker.task = <<>>

\* When the worker polls again or exits, the task it obtained last is not in
\* the inflight table.
WorkerLeavesNothing ==
    worker.pc \in {"poll", "exit"} =>
       \A k \in DOMAIN inflight : Ord(inflight[k]) # worker.last

\* With --once the loop ends after one iteration, and only then.
WorkerOnceExits ==
    /\ (worker.once /\ worker.ran) => worker.pc = "exit"
    /\ worker.pc = "exit" => worker.once /\ worker.ran

\* C35: in the poll loop every task obtained from a dequeue is followed by
\* exactly one complete call for its id (status ok or error) before the next
\* dequeue, so the worker never leaves its own job in inflight; with --once
\* the loop ends after one iteration.
C35_WorkerProtocol ==
    WorkerCompletesOnce /\ WorkerLeavesNothing /\ WorkerOnceExits

====
